---- MODULE Spec2Model ----
(***************************************************************************)
(* Model of the span post-processing of src/src/evaluation.py:             *)
(* filter_impossible_spans, get_predictions, compute_predictions_logits,   *)
(* SpanCombination.__eq__, _get_best_indexes and _compute_softmax.         *)
(*                                                                         *)
(* Python lists are sequences; a Python position p (0-based) of a list l   *)
(* is l[p + 1] here.  Scores are small integers.  An optional integer      *)
(* (None or a value) is a sequence of length 0 or 1.                       *)
(***************************************************************************)
EXTENDS Integers, Sequences, FiniteSets, TLC

(***************************************************************************)
(* Bounds of the checked input space.                                      *)
(***************************************************************************)
MaxNBest == 2
MaxAnswerLength == 3
MaxOrdinal == 2

MaxLogits == 4

MaxPosition == 3

(***************************************************************************)
(* Generic list helpers.                                                   *)
(***************************************************************************)
RECURSIVE Flatten(_)
Flatten(ss) == IF ss = <<>> THEN <<>> ELSE Head(ss) \o Flatten(Tail(ss))

Range(s) == { s[i] : i \in DOMAIN s }

SetMin(S) == CHOOSE x \in S : \A y \in S : x <= y

SetMax(S) == CHOOSE x \in S : \A y \in S : y <= x

(***************************************************************************)
(* _get_best_indexes: positions of the n_best_size highest scores, in      *)
(* descending score order; the sort is stable, so equal scores keep        *)
(* ascending position order.                                               *)
(***************************************************************************)
\* the best remaining position with equal scores in descending position
\* order
BestRemainingLastFirst(logits, left) ==
    CHOOSE i \in left :
        \A j \in left :
            \/ logits[i + 1] > logits[j + 1]
            \/ logits[i + 1] = logits[j + 1] /\ i >= j

BestRemaining(logits, left) ==
    CHOOSE i \in left :
        \A j \in left :
            \/ logits[i + 1] > logits[j + 1]
            \/ logits[i + 1] = logits[j + 1] /\ i <= j

RECURSIVE SortedIndexes(_, _)
SortedIndexes(logits, left) ==
    IF left = {} THEN <<>>
    ELSE LET b == BestRemaining(logits, left)
         IN  <<b>> \o SortedIndexes(logits, left \ {b})

_get_best_indexes(logits, n_best_size) ==
    LET index_and_score == SortedIndexes(logits, 0 .. (Len(logits) - 1))
        \* index_and_score[:n_best_size]: a negative bound counts from the end
        stop == IF n_best_size < 0
                THEN (IF Len(index_and_score) + n_best_size < 0
                      THEN 0 ELSE Len(index_and_score) + n_best_size)
                ELSE (IF n_best_size < Len(index_and_score)
                      THEN n_best_size ELSE Len(index_and_score))
    IN  SubSeq(index_and_score, 1, stop)

(***************************************************************************)
(* dict.get(key, default) and "key in dict" of Python.                     *)
(***************************************************************************)
DictGet(d, key, default) == IF key \in DOMAIN d THEN d[key] ELSE default

(***************************************************************************)
(* An exception leaving a function is a record with the field "raised".    *)
(***************************************************************************)
Raise(kind) == [raised |-> kind]

IsRaise(x) == "raised" \in DOMAIN x

\* list[i] of Python: position i, from the end when i is negative, and
\* IndexError outside -len .. len - 1
InRange(list, i) == -Len(list) <= i /\ i < Len(list)

At(list, i) == IF i < 0 THEN list[Len(list) + i + 1] ELSE list[i + 1]

(***************************************************************************)
(* filter_impossible_spans, lines 310-314: the sentence offsets of a chunk *)
(* that are not None, sentence_2_offset first.                             *)
(***************************************************************************)
SentenceOffsets(feature) ==
    feature.sentence_2_offset \o feature.sentence_3_offset

(***************************************************************************)
(* Lines 328-340 (cause) and 344-362 (effect): the raw pair, or, when the  *)
(* heuristic is on, the two sub-pairs of the last offset that lies         *)
(* strictly between start and end: each matching offset overwrites the     *)
(* pairs built for the one before it.                                      *)
(***************************************************************************)
RECURSIVE SplitLoop(_, _, _, _)
SplitLoop(pairs, raw_start_index, raw_end_index, sentence_offsets) ==
    IF sentence_offsets = <<>> THEN pairs
    ELSE SplitLoop(
           IF raw_start_index < Head(sentence_offsets)
              /\ Head(sentence_offsets) < raw_end_index
           THEN << <<raw_start_index, Head(sentence_offsets)>>,
                   <<Head(sentence_offsets) + 1, raw_end_index>> >>
           ELSE pairs,
           raw_start_index, raw_end_index, Tail(sentence_offsets))

\* the split that keeps the raw pair next to its sub-pairs
SplitPairsKeepRaw(raw_start_index, raw_end_index, sentence_offsets, sentence_boundary_heuristic) ==
    IF Len(sentence_offsets) > 0 /\ sentence_boundary_heuristic
    THEN << <<raw_start_index, raw_end_index>> >>
         \o SplitLoop(<<>>, raw_start_index, raw_end_index, sentence_offsets)
    ELSE << <<raw_start_index, raw_end_index>> >>

SplitPairs(raw_start_index, raw_end_index, sentence_offsets, sentence_boundary_heuristic) ==
    IF Len(sentence_offsets) > 0 /\ sentence_boundary_heuristic
    THEN SplitLoop(<< <<raw_start_index, raw_end_index>> >>,
                   raw_start_index, raw_end_index, sentence_offsets)
    ELSE << <<raw_start_index, raw_end_index>> >>

(***************************************************************************)
(* PassesFilter without the test that the cause does not start inside the  *)
(* effect span (lines 368-371 left out).                                   *)
(***************************************************************************)
PassesFilterOneSidedOverlap(feature, start_index_cause, end_index_cause, start_index_effect, end_index_effect, max_answer_length) ==
    /\ ~ (start_index_cause <= start_index_effect
          /\ end_index_cause >= start_index_effect)
    /\ ~ (start_index_effect >= Len(feature.tokens)
          \/ start_index_cause >= Len(feature.tokens))
    /\ ~ (end_index_effect >= Len(feature.tokens)
          \/ end_index_cause >= Len(feature.tokens))
    /\ ~ (start_index_effect \notin DOMAIN feature.token_to_orig_map
          \/ start_index_cause \notin DOMAIN feature.token_to_orig_map)
    /\ ~ (end_index_effect \notin DOMAIN feature.token_to_orig_map
          \/ end_index_cause \notin DOMAIN feature.token_to_orig_map)
    /\ ~ (~ DictGet(feature.token_is_max_context, start_index_effect, FALSE)
          \/ ~ DictGet(feature.token_is_max_context, start_index_cause, FALSE))
    /\ ~ (end_index_cause < start_index_cause)
    /\ ~ (end_index_effect < start_index_effect)
    /\ ~ (end_index_cause - start_index_cause + 1 > max_answer_length)
    /\ ~ (end_index_effect - start_index_effect + 1 > max_answer_length)

(***************************************************************************)
(* PassesFilter with the length of the effect span not tested (lines       *)
(* 411-412 left out).                                                      *)
(***************************************************************************)
PassesFilterNoEffectLength(feature, start_index_cause, end_index_cause, start_index_effect, end_index_effect, max_answer_length) ==
    /\ ~ (start_index_cause <= start_index_effect
          /\ end_index_cause >= start_index_effect)
    /\ ~ (start_index_effect <= start_index_cause
          /\ end_index_effect >= start_index_cause)
    /\ ~ (start_index_effect >= Len(feature.tokens)
          \/ start_index_cause >= Len(feature.tokens))
    /\ ~ (end_index_effect >= Len(feature.tokens)
          \/ end_index_cause >= Len(feature.tokens))
    /\ ~ (start_index_effect \notin DOMAIN feature.token_to_orig_map
          \/ start_index_cause \notin DOMAIN feature.token_to_orig_map)
    /\ ~ (end_index_effect \notin DOMAIN feature.token_to_orig_map
          \/ end_index_cause \notin DOMAIN feature.token_to_orig_map)
    /\ ~ (~ DictGet(feature.token_is_max_context, start_index_effect, FALSE)
          \/ ~ DictGet(feature.token_is_max_context, start_index_cause, FALSE))
    /\ ~ (end_index_cause < start_index_cause)
    /\ ~ (end_index_effect < start_index_effect)
    /\ ~ (end_index_cause - start_index_cause + 1 > max_answer_length)

(***************************************************************************)
(* Lines 364-412: the validity filter of one (cause, effect) combination.  *)
(* TRUE when the combination is kept.                                      *)
(***************************************************************************)
(***************************************************************************)
(* PassesFilter without the tests that an end is not before its start      *)
(* (lines 401-404 left out).                                               *)
(***************************************************************************)
PassesFilterNoOrderTest(feature, start_index_cause, end_index_cause, start_index_effect, end_index_effect, max_answer_length) ==
    /\ ~ (start_index_cause <= start_index_effect
          /\ end_index_cause >= start_index_effect)
    /\ ~ (start_index_effect <= start_index_cause
          /\ end_index_effect >= start_index_cause)
    /\ ~ (start_index_effect >= Len(feature.tokens)
          \/ start_index_cause >= Len(feature.tokens))
    /\ ~ (end_index_effect >= Len(feature.tokens)
          \/ end_index_cause >= Len(feature.tokens))
    /\ ~ (start_index_effect \notin DOMAIN feature.token_to_orig_map
          \/ start_index_cause \notin DOMAIN feature.token_to_orig_map)
    /\ ~ (end_index_effect \notin DOMAIN feature.token_to_orig_map
          \/ end_index_cause \notin DOMAIN feature.token_to_orig_map)
    /\ ~ (~ DictGet(feature.token_is_max_context, start_index_effect, FALSE)
          \/ ~ DictGet(feature.token_is_max_context, start_index_cause, FALSE))
    /\ ~ (end_index_cause - start_index_cause + 1 > max_answer_length)
    /\ ~ (end_index_effect - start_index_effect + 1 > max_answer_length)

PassesFilter(feature, start_index_cause, end_index_cause, start_index_effect, end_index_effect, max_answer_length) ==
    /\ ~ (start_index_cause <= start_index_effect
          /\ end_index_cause >= start_index_effect)
    /\ ~ (start_index_effect <= start_index_cause
          /\ end_index_effect >= start_index_cause)
    /\ ~ (start_index_effect >= Len(feature.tokens)
          \/ start_index_cause >= Len(feature.tokens))
    /\ ~ (end_index_effect >= Len(feature.tokens)
          \/ end_index_cause >= Len(feature.tokens))
    /\ ~ (start_index_effect \notin DOMAIN feature.token_to_orig_map
          \/ start_index_cause \notin DOMAIN feature.token_to_orig_map)
    /\ ~ (end_index_effect \notin DOMAIN feature.token_to_orig_map
          \/ end_index_cause \notin DOMAIN feature.token_to_orig_map)
    /\ ~ (~ DictGet(feature.token_is_max_context, start_index_effect, FALSE)
          \/ ~ DictGet(feature.token_is_max_context, start_index_cause, FALSE))
    /\ ~ (end_index_cause < start_index_cause)
    /\ ~ (end_index_effect < start_index_effect)
    /\ ~ (end_index_cause - start_index_cause + 1 > max_answer_length)
    /\ ~ (end_index_effect - start_index_effect + 1 > max_answer_length)

(***************************************************************************)
(* Lines 416-421: the sentence start offsets of a chunk, closed by the     *)
(* token count.  Python position k of the list is element k + 1.           *)
(***************************************************************************)
\* the offsets without the closing token count
AllSentenceOffsetsOpen(feature, sequence_added_tokens) ==
    <<sequence_added_tokens>>
    \o [i \in DOMAIN SentenceOffsets(feature) |-> SentenceOffsets(feature)[i] + 1]

AllSentenceOffsets(feature, sequence_added_tokens) ==
    <<sequence_added_tokens>>
    \o [i \in DOMAIN SentenceOffsets(feature) |-> SentenceOffsets(feature)[i] + 1]
    \o <<Len(feature.tokens)>>

(***************************************************************************)
(* Lines 422-442: the sentences (0-based) whose extent holds the START     *)
(* position of a span, in ascending order.                                 *)
(***************************************************************************)
SentencesOf(start_index, all_sentence_offsets) ==
    SelectSeq([i \in 1 .. (Len(all_sentence_offsets) - 1) |-> i - 1],
              LAMBDA sentence_idx :
                 /\ all_sentence_offsets[sentence_idx + 1] <= start_index
                 /\ start_index < all_sentence_offsets[sentence_idx + 2])

SentStartMin(sentences, all_sentence_offsets) ==
    SetMin({ all_sentence_offsets[sentences[i] + 1] : i \in DOMAIN sentences })

SentEndMax(sentences, all_sentence_offsets) ==
    SetMax({ all_sentence_offsets[sentences[i] + 2] - 1 : i \in DOMAIN sentences })

(***************************************************************************)
(* Lines 447-476, the first rule: when the two sentence sets are disjoint  *)
(* both spans become the extent of their sentences.  min() and max() of    *)
(* an empty list raise ValueError.  A span is <<start, end>>; the result   *)
(* is the two spans or an exception.                                       *)
(***************************************************************************)
SpanPair(cause, effect) == [cause |-> cause, effect |-> effect]

FullSentenceRule(cause, effect, cause_sentences, effect_sentences, all_sentence_offsets, full_sentence_heuristic) ==
    IF Range(cause_sentences) \cap Range(effect_sentences) = {}
       /\ full_sentence_heuristic
    THEN IF cause_sentences = <<>> \/ effect_sentences = <<>>
         THEN Raise("ValueError")
         ELSE SpanPair(
                << SentStartMin(cause_sentences, all_sentence_offsets),
                   SentEndMax(cause_sentences, all_sentence_offsets) >>,
                << SentStartMin(effect_sentences, all_sentence_offsets),
                   SentEndMax(effect_sentences, all_sentence_offsets) >>)
    ELSE SpanPair(cause, effect)

(***************************************************************************)
(* Lines 480-513, the third rule: cause and effect start in the same       *)
(* single sentence; the span that starts first gets the start of the       *)
(* sentence as its start, the other one the end of the sentence as its     *)
(* end.                                                                    *)
(***************************************************************************)
\* the third rule applied whatever the sentences of the two starts are, the
\* earlier span taken through the end of the other span's sentence
SharedSentenceRuleAnySentences(cause, effect, cause_sentences, effect_sentences, all_sentence_offsets, shared_sentence_heuristic) ==
    IF shared_sentence_heuristic
       /\ Len(cause_sentences) = 1
       /\ Len(effect_sentences) = 1
    THEN IF cause[1] < effect[1]
         THEN SpanPair(
                << cause[1],
                   SentEndMax(effect_sentences, all_sentence_offsets) >>,
                effect)
         ELSE SpanPair(
                cause,
                << effect[1],
                   SentEndMax(cause_sentences, all_sentence_offsets) >>)
    ELSE SpanPair(cause, effect)

\* the third rule with the later span untouched and the earlier span taken
\* through the end of the sentence
SharedSentenceRuleEngulfing(cause, effect, cause_sentences, effect_sentences, all_sentence_offsets, shared_sentence_heuristic) ==
    IF Range(cause_sentences) \cap Range(effect_sentences) # {}
       /\ shared_sentence_heuristic
       /\ Len(cause_sentences) = 1
       /\ Len(effect_sentences) = 1
    THEN IF cause[1] < effect[1]
         THEN SpanPair(
                << cause[1],
                   SentEndMax(cause_sentences, all_sentence_offsets) >>,
                effect)
         ELSE SpanPair(
                cause,
                << effect[1],
                   SentEndMax(effect_sentences, all_sentence_offsets) >>)
    ELSE SpanPair(cause, effect)

SharedSentenceRule(cause, effect, cause_sentences, effect_sentences, all_sentence_offsets, shared_sentence_heuristic) ==
    IF Range(cause_sentences) \cap Range(effect_sentences) # {}
       /\ shared_sentence_heuristic
       /\ Len(cause_sentences) = 1
       /\ Len(effect_sentences) = 1
    THEN IF cause[1] < effect[1]
         THEN SpanPair(
                << SentStartMin(cause_sentences, all_sentence_offsets),
                   cause[2] >>,
                << effect[1],
                   SentEndMax(effect_sentences, all_sentence_offsets) >>)
         ELSE SpanPair(
                << cause[1],
                   SentEndMax(cause_sentences, all_sentence_offsets) >>,
                << SentStartMin(effect_sentences, all_sentence_offsets),
                   effect[2] >>)
    ELSE SpanPair(cause, effect)

(***************************************************************************)
(* Lines 414-513: the two extension rules, the first before the third;     *)
(* both read the sentence sets computed from the unextended starts.        *)
(***************************************************************************)
ExtendSpans(feature, cause, effect, sequence_added_tokens, full_sentence_heuristic, shared_sentence_heuristic) ==
    IF full_sentence_heuristic \/ shared_sentence_heuristic
    THEN LET all_sentence_offsets ==
                 AllSentenceOffsets(feature, sequence_added_tokens)
             cause_sentences == SentencesOf(cause[1], all_sentence_offsets)
             effect_sentences == SentencesOf(effect[1], all_sentence_offsets)
             full == FullSentenceRule(cause, effect, cause_sentences,
                                      effect_sentences, all_sentence_offsets,
                                      full_sentence_heuristic)
         IN  IF IsRaise(full) THEN full
             ELSE SharedSentenceRule(full.cause, full.effect, cause_sentences,
                                     effect_sentences, all_sentence_offsets,
                                     shared_sentence_heuristic)
    ELSE SpanPair(cause, effect)

(***************************************************************************)
(* Lines 515-535: the prediction of a kept combination, its four scores    *)
(* read at the final positions.  Reading a list past its end raises        *)
(* IndexError.                                                             *)
(***************************************************************************)
\* the prediction with the two end scores read at the start positions
PrelimPredictionStartScores(feature_index, result, cause, effect) ==
    IF \/ ~ InRange(result.start_cause_logits, cause[1])
       \/ ~ InRange(result.end_cause_logits, cause[2])
       \/ ~ InRange(result.start_effect_logits, effect[1])
       \/ ~ InRange(result.end_effect_logits, effect[2])
    THEN Raise("IndexError")
    ELSE [ feature_index |-> feature_index,
           start_index_cause |-> cause[1],
           end_index_cause |-> cause[2],
           start_logit_cause |-> At(result.start_cause_logits, cause[1]),
           end_logit_cause |-> At(result.end_cause_logits, cause[1]),
           start_index_effect |-> effect[1],
           end_index_effect |-> effect[2],
           start_logit_effect |-> At(result.start_effect_logits, effect[1]),
           end_logit_effect |-> At(result.end_effect_logits, effect[1]) ]

PrelimPrediction(feature_index, result, cause, effect) ==
    IF \/ ~ InRange(result.start_cause_logits, cause[1])
       \/ ~ InRange(result.end_cause_logits, cause[2])
       \/ ~ InRange(result.start_effect_logits, effect[1])
       \/ ~ InRange(result.end_effect_logits, effect[2])
    THEN Raise("IndexError")
    ELSE [ feature_index |-> feature_index,
           start_index_cause |-> cause[1],
           end_index_cause |-> cause[2],
           start_logit_cause |-> At(result.start_cause_logits, cause[1]),
           end_logit_cause |-> At(result.end_cause_logits, cause[2]),
           start_index_effect |-> effect[1],
           end_index_effect |-> effect[2],
           start_logit_effect |-> At(result.start_effect_logits, effect[1]),
           end_logit_effect |-> At(result.end_effect_logits, effect[2]) ]

(***************************************************************************)
(* Lines 342-535 for one cause pair: the loops over the effect pairs.      *)
(* start_index_cause and end_index_cause are bound once per cause pair     *)
(* (line 341) and assigned by the extension rules, so an extended cause    *)
(* span stays in place for the effect pairs that follow; the effect        *)
(* positions are bound anew for every effect pair (line 363).  "items" is  *)
(* what has been appended; an exception ends the loops.                    *)
(***************************************************************************)
RECURSIVE EffectLoop(_, _, _, _, _, _, _, _, _, _)
EffectLoop(feature_index, feature, result, cause, effect_pairs, max_answer_length, sequence_added_tokens, full_sentence_heuristic, shared_sentence_heuristic, items) ==
    IF effect_pairs = <<>> THEN items
    ELSE
      IF PassesFilter(feature, cause[1], cause[2], Head(effect_pairs)[1],
                      Head(effect_pairs)[2], max_answer_length)
      THEN
        LET ext == ExtendSpans(feature, cause, Head(effect_pairs),
                               sequence_added_tokens,
                               full_sentence_heuristic,
                               shared_sentence_heuristic)
        IN  IF IsRaise(ext) THEN Append(items, ext)
            ELSE
              LET prediction == PrelimPrediction(feature_index, result,
                                                 ext.cause, ext.effect)
              IN  IF IsRaise(prediction) THEN Append(items, prediction)
                  ELSE EffectLoop(feature_index, feature, result, ext.cause,
                                  Tail(effect_pairs), max_answer_length,
                                  sequence_added_tokens,
                                  full_sentence_heuristic,
                                  shared_sentence_heuristic,
                                  Append(items, prediction))
      ELSE EffectLoop(feature_index, feature, result, cause,
                      Tail(effect_pairs), max_answer_length,
                      sequence_added_tokens, full_sentence_heuristic,
                      shared_sentence_heuristic, items)

(***************************************************************************)
(* Lines 315-363: the pairs a chunk's loops visit, in loop order: every    *)
(* (start, end) of the top n_best_size positions, split at a sentence      *)
(* offset when the heuristic is on.                                        *)
(***************************************************************************)
SpanPairs(start_logits, end_logits, feature, n_best_size, sentence_boundary_heuristic) ==
    LET start_indexes == _get_best_indexes(start_logits, n_best_size)
        end_indexes == _get_best_indexes(end_logits, n_best_size)
    IN  Flatten([i \in DOMAIN start_indexes |->
          Flatten([j \in DOMAIN end_indexes |->
            SplitPairs(start_indexes[i], end_indexes[j],
                       SentenceOffsets(feature),
                       sentence_boundary_heuristic)])])

(***************************************************************************)
(* Lines 306-535 for one chunk: what the loops append, in order.  The      *)
(* effect pairs do not depend on the cause pair: for every cause pair, in  *)
(* loop order, the loops visit all effect pairs in loop order.             *)
(***************************************************************************)
FeaturePredictions(feature_index, feature, result, n_best_size, max_answer_length, sequence_added_tokens, sentence_boundary_heuristic, full_sentence_heuristic, shared_sentence_heuristic) ==
    LET cause_pairs == SpanPairs(result.start_cause_logits,
                                 result.end_cause_logits, feature,
                                 n_best_size, sentence_boundary_heuristic)
        effect_pairs == SpanPairs(result.start_effect_logits,
                                  result.end_effect_logits, feature,
                                  n_best_size, sentence_boundary_heuristic)
    IN  Flatten([i \in DOMAIN cause_pairs |->
          EffectLoop(feature_index, feature, result, cause_pairs[i],
                     effect_pairs, max_answer_length, sequence_added_tokens,
                     full_sentence_heuristic, shared_sentence_heuristic,
                     <<>>)])

(***************************************************************************)
(* The first exception of a list of appended items, if any.                *)
(***************************************************************************)
FirstRaise(items) ==
    LET bad == { i \in DOMAIN items : IsRaise(items[i]) }
    IN  IF bad = {} THEN <<>> ELSE <<items[SetMin(bad)].raised>>

(***************************************************************************)
(* filter_impossible_spans, lines 294-536.  The result is                  *)
(* [raised, prelim_predictions]: raised is <<>> on return and holds the    *)
(* name of the exception otherwise.                                        *)
(***************************************************************************)
filter_impossible_spans(features, unique_id_to_result, n_best_size, max_answer_length, sequence_added_tokens, sentence_boundary_heuristic, full_sentence_heuristic, shared_sentence_heuristic) ==
    LET items ==
          Flatten([i \in DOMAIN features |->
            FeaturePredictions(
              i - 1, features[i], unique_id_to_result[features[i].unique_id],
              n_best_size, max_answer_length, sequence_added_tokens,
              sentence_boundary_heuristic, full_sentence_heuristic,
              shared_sentence_heuristic)])
    IN  IF FirstRaise(items) # <<>>
        THEN [raised |-> FirstRaise(items), prelim_predictions |-> <<>>]
        ELSE [raised |-> <<>>, prelim_predictions |-> items]

(***************************************************************************)
(* Text.  A string is a sequence of one-character strings; text[a:b] and   *)
(* list[i] of Python, and str.strip().                                     *)
(***************************************************************************)
\* a slice bound of Python on a list of this length: a negative bound
\* counts from the end, and a bound is cut to 0 .. length
SliceBound(length, bound) ==
    IF bound < 0
    THEN (IF length + bound < 0 THEN 0 ELSE length + bound)
    ELSE (IF bound > length THEN length ELSE bound)

Slice(text, a, b) ==
    SubSeq(text, SliceBound(Len(text), a) + 1, SliceBound(Len(text), b))

\* the characters str.strip() and str.lstrip() remove, among the
\* characters up to U+00FF (the characters a string of this module holds):
\* tab, line feed, vertical tab, form feed, carriage return, U+001C to
\* U+001F, space, U+0085 and the no-break space
Whitespace == { "\t", "\n", "", "\f", "\r", "", "", "", "", " ", "", " " }

RECURSIVE LStrip(_)
LStrip(text) ==
    IF text # <<>> /\ Head(text) \in Whitespace
    THEN LStrip(Tail(text)) ELSE text

RECURSIVE RStrip(_)
RStrip(text) ==
    IF text # <<>> /\ text[Len(text)] \in Whitespace
    THEN RStrip(SubSeq(text, 1, Len(text) - 1))
    ELSE text

Strip(text) == RStrip(LStrip(text))

(***************************************************************************)
(* get_predictions, lines 553-569 (cause) and 571-587 (effect): the text   *)
(* of the words orig_doc_start .. orig_doc_end of the example, from the    *)
(* first character of the first word up to the first character of the     *)
(* word after the last one (or the end of the text), stripped.  Reading    *)
(* word_to_char_mapping outside the list raises IndexError.                *)
(***************************************************************************)
FinalTextRaises(example, orig_doc_start, orig_doc_end) ==
    \/ ~ InRange(example.word_to_char_mapping, orig_doc_start)
    \/ /\ orig_doc_end < Len(example.word_to_char_mapping) - 1
       /\ ~ InRange(example.word_to_char_mapping, orig_doc_end + 1)

FinalText(example, orig_doc_start, orig_doc_end) ==
    IF FinalTextRaises(example, orig_doc_start, orig_doc_end)
    THEN Raise("IndexError")
    ELSE
      LET orig_doc_start_char ==
              At(example.word_to_char_mapping, orig_doc_start)
          orig_doc_end_char ==
              IF orig_doc_end < Len(example.word_to_char_mapping) - 1
              THEN At(example.word_to_char_mapping, orig_doc_end + 1)
              ELSE Len(example.context_text)
      IN  Strip(Slice(example.context_text, orig_doc_start_char,
                      orig_doc_end_char))

NbestPrediction(text_cause, start_index_cause, end_index_cause, start_logit_cause, end_logit_cause, text_effect, start_index_effect, end_index_effect, start_logit_effect, end_logit_effect) ==
    [ text_cause |-> text_cause,
      start_index_cause |-> start_index_cause,
      end_index_cause |-> end_index_cause,
      start_logit_cause |-> start_logit_cause,
      end_logit_cause |-> end_logit_cause,
      text_effect |-> text_effect,
      start_index_effect |-> start_index_effect,
      end_index_effect |-> end_index_effect,
      start_logit_effect |-> start_logit_effect,
      end_logit_effect |-> end_logit_effect ]

(***************************************************************************)
(* get_predictions, lines 552-596: a prediction whose cause starts after   *)
(* position 0.  The positions are mapped to words (a position without an   *)
(* entry in token_to_orig_map raises KeyError) and the words to text, the  *)
(* cause before the effect: the result is the entry or the first           *)
(* exception.                                                              *)
(***************************************************************************)
NonNullEntry(prediction, feature, example) ==
    IF \/ prediction.start_index_cause \notin DOMAIN feature.token_to_orig_map
       \/ prediction.end_index_cause \notin DOMAIN feature.token_to_orig_map
    THEN Raise("KeyError")
    ELSE IF FinalTextRaises(example, feature.token_to_orig_map[prediction.start_index_cause], feature.token_to_orig_map[prediction.end_index_cause])
    THEN Raise("IndexError")
    ELSE IF \/ prediction.start_index_effect \notin DOMAIN feature.token_to_orig_map
            \/ prediction.end_index_effect \notin DOMAIN feature.token_to_orig_map
    THEN Raise("KeyError")
    ELSE IF FinalTextRaises(example, feature.token_to_orig_map[prediction.start_index_effect], feature.token_to_orig_map[prediction.end_index_effect])
    THEN Raise("IndexError")
    ELSE
      LET orig_doc_start_cause ==
              feature.token_to_orig_map[prediction.start_index_cause]
          orig_doc_end_cause ==
              feature.token_to_orig_map[prediction.end_index_cause]
          orig_doc_start_effect ==
              feature.token_to_orig_map[prediction.start_index_effect]
          orig_doc_end_effect ==
              feature.token_to_orig_map[prediction.end_index_effect]
      IN  NbestPrediction(
            FinalText(example, orig_doc_start_cause, orig_doc_end_cause),
            orig_doc_start_cause, orig_doc_end_cause,
            prediction.start_logit_cause, prediction.end_logit_cause,
            FinalText(example, orig_doc_start_effect, orig_doc_end_effect),
            orig_doc_start_effect, orig_doc_end_effect,
            prediction.start_logit_effect, prediction.end_logit_effect)

(***************************************************************************)
(* get_predictions, lines 597-604: a prediction whose cause starts at      *)
(* position 0 has empty texts and keeps token positions; the start of the  *)
(* effect is set from end_index_effect (line 603).                         *)
(***************************************************************************)
NullEntry(prediction) ==
    NbestPrediction(
      <<>>, prediction.start_index_cause, prediction.end_index_cause,
      prediction.start_logit_cause, prediction.end_logit_cause,
      <<>>, prediction.end_index_effect, prediction.end_index_effect,
      prediction.start_logit_effect, prediction.end_logit_effect)

(***************************************************************************)
(* get_predictions, lines 589-593: the test that skips a prediction.       *)
(***************************************************************************)
AlreadySeen(entry, seen_predictions_cause, seen_predictions_effect) ==
    /\ entry.text_cause \in seen_predictions_cause
    /\ entry.text_effect \in seen_predictions_effect

(***************************************************************************)
(* get_predictions, lines 548-620: the loop over the ranked predictions.   *)
(* Both texts of an appended entry are recorded in seen_predictions_cause  *)
(* (lines 595-596 and 599-600); nothing is ever put in                     *)
(* seen_predictions_effect.                                                *)
(***************************************************************************)
RECURSIVE PredictionsLoop(_, _, _, _, _, _, _)
PredictionsLoop(preliminary_predictions, n_best_size, features, example, seen_predictions_cause, seen_predictions_effect, nbest) ==
    IF preliminary_predictions = <<>> \/ Len(nbest) >= n_best_size
    THEN [raised |-> <<>>, nbest |-> nbest]
    ELSE
      LET prediction == Head(preliminary_predictions)
      IN  IF ~ InRange(features, prediction.feature_index)
          THEN [raised |-> <<"IndexError">>, nbest |-> <<>>]
          ELSE IF prediction.start_index_cause > 0
          THEN
            LET entry == NonNullEntry(prediction, At(features, prediction.feature_index), example)
            IN  IF IsRaise(entry)
                THEN [raised |-> <<entry.raised>>, nbest |-> <<>>]
                ELSE IF AlreadySeen(entry, seen_predictions_cause,
                                    seen_predictions_effect)
                THEN PredictionsLoop(
                       Tail(preliminary_predictions), n_best_size,
                       features, example, seen_predictions_cause,
                       seen_predictions_effect, nbest)
                ELSE PredictionsLoop(
                       Tail(preliminary_predictions), n_best_size,
                       features, example,
                       seen_predictions_cause
                         \cup {entry.text_cause, entry.text_effect},
                       seen_predictions_effect,
                       Append(nbest, entry))
          ELSE PredictionsLoop(
                 Tail(preliminary_predictions), n_best_size, features,
                 example, seen_predictions_cause \cup {<<>>},
                 seen_predictions_effect,
                 Append(nbest, NullEntry(prediction)))

\* get_predictions without the test of line 549: the loop never stops early
get_predictions_uncapped(preliminary_predictions, n_best_size, features, example) ==
    PredictionsLoop(preliminary_predictions,
                    Len(preliminary_predictions) + 1, features, example,
                    {}, {}, <<>>)

get_predictions(preliminary_predictions, n_best_size, features, example) ==
    PredictionsLoop(preliminary_predictions, n_best_size, features, example,
                    {}, {}, <<>>)

(***************************************************************************)
(* SpanCombination.__eq__, lines 781-794.  SpanCombination defines no      *)
(* __ne__, so a != b is "not a.__eq__(b)".                                 *)
(***************************************************************************)
SpanCombination(start_cause, end_cause, start_effect, end_effect) ==
    [ start_cause |-> start_cause, end_cause |-> end_cause,
      start_effect |-> start_effect, end_effect |-> end_effect ]

SpanEq(self, other) ==
    LET overlapping_cause ==
          \/ self.start_cause <= other.start_cause
               /\ other.start_cause <= self.end_cause
          \/ self.start_cause <= other.end_cause
               /\ other.end_cause <= self.end_cause
          \/ self.start_effect <= other.start_cause
               /\ other.start_cause <= self.end_effect
          \/ self.start_effect <= other.end_cause
               /\ other.end_cause <= self.end_effect
        overlapping_effect ==
          \/ self.start_effect <= other.start_effect
               /\ other.start_effect <= self.end_effect
          \/ self.start_effect <= other.end_effect
               /\ other.end_effect <= self.end_effect
          \/ self.start_cause <= other.start_effect
               /\ other.start_effect <= self.end_cause
          \/ self.start_cause <= other.end_effect
               /\ other.end_effect <= self.end_cause
    IN  overlapping_cause /\ overlapping_effect

(***************************************************************************)
(* _compute_softmax, lines 808-818.  exp() has no integer value, so a      *)
(* probability exp(num) / (exp(den[1]) + ... + exp(den[k])) is kept as     *)
(* the record [num, den] of the exponents, each a score minus the          *)
(* maximum.  It is 1.0 when the list has the single exponent 0.            *)
(***************************************************************************)
_compute_softmax(scores) ==
    IF scores = <<>> THEN <<>>
    ELSE LET max_score == SetMax(Range(scores))
             exp_scores == [i \in DOMAIN scores |-> scores[i] - max_score]
         IN  [i \in DOMAIN scores |->
                [num |-> exp_scores[i], den |-> exp_scores]]

ProbabilityOne == [num |-> 0, den |-> <<0>>]

(***************************************************************************)
(* compute_predictions_logits, lines 641-643: the ordinal of an example    *)
(* id: str.count("."), the text after the last "." (str.split(".")[-1])    *)
(* and int() of it.  int() accepts blanks around the number, one sign,     *)
(* and single "_" between digits, and raises ValueError on anything else,  *)
(* the empty text included.                                                *)
(***************************************************************************)
CountChar(text, ch) == Cardinality({ i \in DOMAIN text : text[i] = ch })

LastSegment(text) ==
    LET dots == { i \in DOMAIN text : text[i] = "." }
    IN  IF dots = {} THEN text
        ELSE SubSeq(text, SetMax(dots) + 1, Len(text))

Digits == <<"0", "1", "2", "3", "4", "5", "6", "7", "8", "9">>

\* int() of one character
DigitValue(ch) ==
    IF \E d \in DOMAIN Digits : Digits[d] = ch
    THEN (CHOOSE d \in DOMAIN Digits : Digits[d] = ch) - 1
    ELSE Raise("ValueError")

\* the characters int() skips around a number, among the characters up to
\* U+00FF
IntWhitespace == { "\t", "\n", "", "\f", "\r", " ", "", " " }

\* the text without the blanks around it and without its sign
Unsigned(text) ==
    LET kept == { i \in DOMAIN text : text[i] \notin IntWhitespace }
        body == IF kept = {} THEN <<>>
                ELSE SubSeq(text, SetMin(kept), SetMax(kept))
    IN  IF body # <<>> /\ Head(body) \in {"+", "-"} THEN Tail(body) ELSE body

Negative(text) ==
    \E i \in DOMAIN text :
      /\ text[i] = "-"
      /\ \A j \in 1 .. (i - 1) : text[j] \in IntWhitespace

IntRaises(text) ==
    LET unsigned == Unsigned(text)
    IN  \/ unsigned = <<>>
        \/ \E i \in DOMAIN unsigned :
             /\ unsigned[i] # "_"
             /\ \A d \in DOMAIN Digits : Digits[d] # unsigned[i]
        \/ unsigned[1] = "_"
        \/ unsigned[Len(unsigned)] = "_"
        \/ \E i \in 1 .. (Len(unsigned) - 1) :
             unsigned[i] = "_" /\ unsigned[i + 1] = "_"

IntOf(text) ==
    IF IntRaises(text) THEN Raise("ValueError")
    ELSE
      LET digits == SelectSeq(Unsigned(text), LAMBDA ch : ch # "_")
          value[i \in 0 .. Len(digits)] ==
              IF i = 0 THEN 0 ELSE value[i - 1] * 10 + DigitValue(digits[i])
      IN  IF Negative(text) THEN 0 - value[Len(digits)]
          ELSE value[Len(digits)]

SuffixRaises(example_id, top_n_sentences) ==
    /\ CountChar(example_id, ".") = 2
    /\ top_n_sentences
    /\ IntRaises(LastSegment(example_id))

SuffixIndex(example_id, top_n_sentences) ==
    IF CountChar(example_id, ".") = 2 /\ top_n_sentences
    THEN IntOf(LastSegment(example_id))
    ELSE 0

(***************************************************************************)
(* Lines 734-735: the position of the recorded answer in the n-best list.  *)
(***************************************************************************)
\* the position without the decrement of lines 734-735
AnswerIndexNoDecrement(suffix_index) == suffix_index

AnswerIndex(suffix_index) ==
    IF suffix_index > 0 THEN suffix_index - 1 ELSE suffix_index

(***************************************************************************)
(* Lines 654-663: the predictions as a set (equal tuples collapse), sorted *)
(* by the sum of the four scores, highest first.  The sort is stable and   *)
(* the order in which a set is iterated is not fixed by its elements, so   *)
(* predictions of equal sum come in any order: Rankings is the set of      *)
(* lists sorted() may return.                                              *)
(***************************************************************************)
ScoreSum(x) ==
    x.start_logit_cause + x.end_logit_cause
    + x.start_logit_effect + x.end_logit_effect

\* the predictions sorted by ascending sum
RECURSIVE RankingsAscending(_)
RankingsAscending(S) ==
    IF S = {} THEN { <<>> }
    ELSE UNION { { <<m>> \o r : r \in RankingsAscending(S \ {m}) } :
                 m \in { x \in S : \A y \in S : ScoreSum(x) <= ScoreSum(y) } }

RECURSIVE Rankings(_)
Rankings(S) ==
    IF S = {} THEN { <<>> }
    ELSE UNION { { <<m>> \o r : r \in Rankings(S \ {m}) } :
                 m \in { x \in S : \A y \in S : ScoreSum(y) <= ScoreSum(x) } }

(***************************************************************************)
(* Line 655, set(prelim_predictions): predictions that are equal as        *)
(* tuples, field by field, are one element.                                *)
(***************************************************************************)
\* a prediction is dropped when its spans overlap, in the sense of
\* SpanCombination, those of a prediction before it
DeduplicatedByOverlap(prelim_predictions) ==
    { prelim_predictions[i] : i \in
        { k \in DOMAIN prelim_predictions :
            \A j \in 1 .. (k - 1) :
              ~ SpanEq(SpanCombination(prelim_predictions[k].start_index_cause, prelim_predictions[k].end_index_cause, prelim_predictions[k].start_index_effect, prelim_predictions[k].end_index_effect),
                       SpanCombination(prelim_predictions[j].start_index_cause, prelim_predictions[j].end_index_cause, prelim_predictions[j].start_index_effect, prelim_predictions[j].end_index_effect)) } }

Deduplicated(prelim_predictions) == Range(prelim_predictions)

(***************************************************************************)
(* Lines 669-686: the entry that stands for "no prediction".               *)
(***************************************************************************)
EmptyText == <<"e", "m", "p", "t", "y">>

Placeholder ==
    NbestPrediction(EmptyText, 0, 0, 0, 0, EmptyText, 0, 0, 0, 0)

WithPlaceholder(nbest) == IF nbest = <<>> THEN <<Placeholder>> ELSE nbest

(***************************************************************************)
(* Lines 721-729: is_new of entry i: its span differs (!=) from the span   *)
(* of every entry before it, the new span on the left.                     *)
(***************************************************************************)
EntrySpan(entry) ==
    SpanCombination(entry.start_index_cause, entry.end_index_cause,
                    entry.start_index_effect, entry.end_index_effect)

\* is_new with the operands of != exchanged
IsNewSwapped(nbest, i) ==
    \A j \in 1 .. (i - 1) : ~ SpanEq(EntrySpan(nbest[j]), EntrySpan(nbest[i]))

IsNew(nbest, i) ==
    \A j \in 1 .. (i - 1) : ~ SpanEq(EntrySpan(nbest[i]), EntrySpan(nbest[j]))

(***************************************************************************)
(* Lines 688-732: the report of an n-best list.                            *)
(***************************************************************************)
NbestJson(nbest, example) ==
    LET total_scores == [i \in DOMAIN nbest |-> ScoreSum(nbest[i])]
        probabilities == _compute_softmax(total_scores)
    IN  [i \in DOMAIN nbest |->
          [ text |-> example.context_text,
            probability |-> probabilities[i],
            cause_text |-> nbest[i].text_cause,
            cause_start_index |-> nbest[i].start_index_cause,
            cause_end_index |-> nbest[i].end_index_cause,
            cause_start_score |-> nbest[i].start_logit_cause,
            cause_end_score |-> nbest[i].end_logit_cause,
            effect_text |-> nbest[i].text_effect,
            effect_start_score |-> nbest[i].start_logit_effect,
            effect_end_score |-> nbest[i].end_logit_effect,
            effect_start_index |-> nbest[i].start_index_effect,
            effect_end_index |-> nbest[i].end_index_effect,
            is_new |-> IsNew(nbest, i) ]]

(***************************************************************************)
(* Lines 737-741: the answer recorded for an example; a negative position  *)
(* counts from the end of the report, and a position outside the report    *)
(* raises IndexError.                                                      *)
(***************************************************************************)
Answer(nbest_json, index) ==
    IF ~ InRange(nbest_json, index) THEN Raise("IndexError")
    ELSE [ text |-> At(nbest_json, index).text,
           cause_text |-> At(nbest_json, index).cause_text,
           effect_text |-> At(nbest_json, index).effect_text ]

(***************************************************************************)
(* An OrderedDict is a list of <<key, value>>: a new key is appended, a    *)
(* known key keeps its place and gets the new value.                       *)
(***************************************************************************)
DictKeys(d) == { d[i][1] : i \in DOMAIN d }

DictValue(d, key) == d[CHOOSE i \in DOMAIN d : d[i][1] = key][2]

DictSet(d, key, value) ==
    IF key \in DictKeys(d)
    THEN [i \in DOMAIN d |-> IF d[i][1] = key THEN <<key, value>> ELSE d[i]]
    ELSE Append(d, <<key, value>>)

(***************************************************************************)
(* Lines 631-634: the chunks of an example, in order, and the scorer's     *)
(* output by chunk id.                                                     *)
(***************************************************************************)
ExampleIndexToFeatures(all_features, example_index) ==
    SelectSeq(all_features, LAMBDA f : f.example_index = example_index)

UniqueIdToResult(all_results) ==
    [ id \in { all_results[i].unique_id : i \in DOMAIN all_results } |->
        all_results[SetMax({ i \in DOMAIN all_results :
                               all_results[i].unique_id = id })] ]

(***************************************************************************)
(* Lines 639-742, one pass of the loop over the examples, for one order    *)
(* "ranked" of the sorted predictions: the line at which the pass ended    *)
(* (742 when it ran to its end, the line of the statement that raised      *)
(* otherwise, 0 outside the loop), the exception that ended it, if any,    *)
(* and the values of its locals at that line.                              *)
(***************************************************************************)
Locals(line, raised, suffix_index, prelim_predictions, nbest, nbest_json) ==
    [ line |-> line,
      raised |-> raised,
      suffix_index |-> suffix_index,
      prelim_predictions |-> prelim_predictions,
      nbest |-> nbest,
      nbest_json |-> nbest_json ]

\* one pass that falls back to entry 0 when the position is past the end
LoopBodyClamped(example, features, spans_result, ranked, run_cfg) ==
    IF SuffixRaises(example.example_id, run_cfg.top_n_sentences)
    THEN Locals(643, <<"ValueError">>, 0, <<>>, <<>>, <<>>)
    ELSE
      LET suffix_index ==
              SuffixIndex(example.example_id, run_cfg.top_n_sentences)
          got == get_predictions(ranked, run_cfg.n_best_size, features,
                                 example)
          nbest == WithPlaceholder(got.nbest)
          nbest_json == NbestJson(nbest, example)
      IN  IF spans_result.raised # <<>>
          THEN Locals(644, spans_result.raised, suffix_index, <<>>, <<>>, <<>>)
          ELSE IF got.raised # <<>>
          THEN Locals(665, got.raised, suffix_index, ranked, <<>>, <<>>)
          ELSE IF ~ InRange(nbest_json, AnswerIndex(suffix_index))
          THEN Locals(742, <<>>, 0, ranked, nbest, nbest_json)
          ELSE Locals(742, <<>>, AnswerIndex(suffix_index), ranked, nbest,
                      nbest_json)

\* int() of the id's last segment comes first (line 643), then
\* filter_impossible_spans (line 644), get_predictions (line 665), the
\* report (lines 688-732) and the answer (line 738)
LoopBody(example, features, spans_result, ranked, run_cfg) ==
    IF SuffixRaises(example.example_id, run_cfg.top_n_sentences)
    THEN Locals(643, <<"ValueError">>, 0, <<>>, <<>>, <<>>)
    ELSE
      LET suffix_index ==
              SuffixIndex(example.example_id, run_cfg.top_n_sentences)
          got == get_predictions(ranked, run_cfg.n_best_size, features,
                                 example)
          nbest == WithPlaceholder(got.nbest)
          nbest_json == NbestJson(nbest, example)
      IN  IF spans_result.raised # <<>>
          THEN Locals(644, spans_result.raised, suffix_index, <<>>, <<>>, <<>>)
          ELSE IF got.raised # <<>>
          THEN Locals(665, got.raised, suffix_index, ranked, <<>>, <<>>)
          ELSE IF ~ InRange(nbest_json, AnswerIndex(suffix_index))
          THEN Locals(738, <<"IndexError">>, AnswerIndex(suffix_index), ranked,
                      nbest, nbest_json)
          ELSE Locals(742, <<>>, AnswerIndex(suffix_index), ranked, nbest,
                      nbest_json)

(***************************************************************************)
(* Inputs.  The chunks ("features") and the examples come from the         *)
(* tokenisation step; they are built here as that step's contract          *)
(* describes them: a chunk is [CLS], the content tokens and [SEP]; only    *)
(* content tokens have an entry in token_to_orig_map; the first content    *)
(* token is at position sequence_added_tokens; a sentence offset is the    *)
(* position of the last token of a sentence, and offsets increase.         *)
(***************************************************************************)
ChunkTokens == <<"[CLS]", "t1", "t2", "t3", "t4", "[SEP]">>

ShortChunkTokens == <<"[CLS]", "t1", "t2", "t3", "[SEP]">>

Feature(unique_id, example_index, tokens, token_to_orig_map, token_is_max_context, sentence_2_offset, sentence_3_offset) ==
    [ unique_id |-> unique_id,
      example_index |-> example_index,
      tokens |-> tokens,
      token_to_orig_map |-> token_to_orig_map,
      token_is_max_context |-> token_is_max_context,
      sentence_2_offset |-> sentence_2_offset,
      sentence_3_offset |-> sentence_3_offset ]

\* content position p is word p - 1
WordPerToken(tokens) == [p \in 1 .. (Len(tokens) - 2) |-> p - 1]

AllMaxContext(tokens) == [p \in 0 .. (Len(tokens) - 1) |-> TRUE]

\* the chunks of the span checks: no, one and two sentence offsets, a chunk
\* shorter than the score arrays, and a chunk with a token that another
\* chunk has more context for
SpanFeatures ==
    { Feature(1, 0, ChunkTokens, WordPerToken(ChunkTokens),
              AllMaxContext(ChunkTokens), <<>>, <<>>),
      Feature(1, 0, ChunkTokens, WordPerToken(ChunkTokens),
              AllMaxContext(ChunkTokens), <<2>>, <<>>),
      Feature(1, 0, ChunkTokens, WordPerToken(ChunkTokens),
              AllMaxContext(ChunkTokens), <<2>>, <<3>>),
      Feature(1, 0, ShortChunkTokens, WordPerToken(ShortChunkTokens),
              [AllMaxContext(ShortChunkTokens) EXCEPT ![3] = FALSE],
              <<1>>, <<>>) }

Result(unique_id, start_cause_logits, end_cause_logits, start_effect_logits, end_effect_logits) ==
    [ unique_id |-> unique_id,
      start_cause_logits |-> start_cause_logits,
      end_cause_logits |-> end_cause_logits,
      start_effect_logits |-> start_effect_logits,
      end_effect_logits |-> end_effect_logits ]

EmptyResult(unique_id) == Result(unique_id, <<>>, <<>>, <<>>, <<>>)

\* a score array of the scorer: one entry per position of the padded chunk
OneHot(peak) == [i \in 1 .. Len(ChunkTokens) |-> IF i = peak + 1 THEN 1 ELSE 0]

\* the positions a score array may peak at: the content tokens and [SEP]
\* (position 0, [CLS], is the runner-up of every such array)
Peaks == 1 .. (Len(ChunkTokens) - 1)

SpanResults ==
    { Result(1, OneHot(a), OneHot(b), OneHot(c), OneHot(d)) :
        a \in Peaks, b \in Peaks, c \in Peaks, d \in Peaks }
    \cup { EmptyResult(1) }

RunConfigs ==
    [ n_best_size : 1 .. MaxNBest,
      max_answer_length : (MaxAnswerLength - 1) .. MaxAnswerLength,
      sentence_boundary_heuristic : BOOLEAN,
      full_sentence_heuristic : BOOLEAN,
      shared_sentence_heuristic : BOOLEAN,
      top_n_sentences : BOOLEAN ]

(***************************************************************************)
(* The documents of the runs of compute_predictions_logits: "ab c d",      *)
(* whose first word is two tokens, as one sentence, and "a b a b" in       *)
(* three sentences.                                                        *)
(***************************************************************************)
Document(context_text, word_to_char_mapping, token_to_orig_map, sentence_2_offset, sentence_3_offset) ==
    [ context_text |-> context_text,
      word_to_char_mapping |-> word_to_char_mapping,
      token_to_orig_map |-> token_to_orig_map,
      sentence_2_offset |-> sentence_2_offset,
      sentence_3_offset |-> sentence_3_offset ]

Documents ==
    { Document(<<"a", "b", "\t", "c", "\n", "d">>, <<0, 3, 5>>,
               (1 :> 0) @@ (2 :> 0) @@ (3 :> 1) @@ (4 :> 2), <<>>, <<>>),
      Document(<<"a", " ", "b", " ", "a", " ", "b">>, <<0, 2, 4, 6>>,
               WordPerToken(ChunkTokens), <<2>>, <<3>>) }

\* the ids of the examples: "7", and "1.2.k" for the ordinals k
OrdinalId(k) == <<"1", ".", "2", ".", Digits[k + 1]>>

ExampleIds ==
    { <<"7">> } \cup { OrdinalId(k) : k \in 0 .. MaxOrdinal }

Example(example_id, doc) ==
    [ example_id |-> example_id,
      context_text |-> doc.context_text,
      word_to_char_mapping |-> doc.word_to_char_mapping ]

\* the id lists of a run: one example of any id, or example "7" and the
\* example of the highest ordinal
ExampleIdLists ==
    { <<id>> : id \in ExampleIds } \cup { << <<"7">>, OrdinalId(MaxOrdinal) >> }

\* a score array without ties: the scores fall along "order", a list of all
\* positions, and are multiples of the array's weight, so that two
\* predictions of a chunk with different positions have different sums
Scores(order, weight) ==
    [i \in 1 .. Len(order) |->
       (Len(order) - (CHOOSE k \in DOMAIN order : order[k] = i - 1)) * weight]

RECURSIVE Ascending(_)
Ascending(S) ==
    IF S = {} THEN <<>> ELSE <<SetMin(S)>> \o Ascending(S \ {SetMin(S)})

\* the best position, the second best, then the others from left to right
PeakOrder(best, second) ==
    <<best, second>>
    \o Ascending((0 .. (Len(ChunkTokens) - 1)) \ {best, second})

\* the two best positions of the cause arrays and of the effect arrays
CausePeakPairs == { <<1, 3>>, <<2, 1>> }

EffectPeakPairs == { <<3, 4>>, <<4, 2>>, <<1, 2>> }

Base == Len(ChunkTokens)

DocResults(unique_id) ==
    { Result(unique_id,
             Scores(PeakOrder(a[1], a[2]), Base * Base * Base),
             Scores(PeakOrder(b[1], b[2]), Base * Base),
             Scores(PeakOrder(c[1], c[2]), Base),
             Scores(PeakOrder(d[1], d[2]), 1)) :
        a \in CausePeakPairs, b \in CausePeakPairs,
        c \in EffectPeakPairs, d \in EffectPeakPairs }
    \cup { EmptyResult(unique_id) }

(***************************************************************************)
(* State.                                                                  *)
(***************************************************************************)
VARIABLES
    pc,                    \* position of the run
    run_config,            \* RunConfig
    sequence_added_tokens,
    all_examples,          \* the examples, in order
    all_features,          \* the chunks of all examples
    all_results,           \* the scorer's output, one per chunk
    spans,                 \* what filter_impossible_spans returned or raised
    example_index,         \* examples processed so far
    last,                  \* the locals of the last pass of the loop
    all_predictions,       \* OrderedDict: example id -> answer
    all_nbest_json,        \* OrderedDict: example id -> report
    files,                 \* the output files written, in order
    metrics                \* what compute_metrics built, returned or raised

vars == <<pc, run_config, sequence_added_tokens, all_examples, all_features,
          all_results, spans, example_index, last, all_predictions,
          all_nbest_json, files, metrics>>

NoSpans == [raised |-> <<>>, prelim_predictions |-> <<>>]

NoLocals == Locals(0, <<>>, 0, <<>>, <<>>, <<>>)

NoMetrics == [raised |-> <<>>, all_correct |-> <<>>, all_wrong |-> <<>>, results |-> <<>>]

(***************************************************************************)
(* filter_impossible_spans on one chunk, for every configuration.          *)
(***************************************************************************)
InitSpans ==
    /\ pc = "call"
    /\ run_config \in { c \in RunConfigs : ~ c.top_n_sentences }
    /\ sequence_added_tokens = 1
    /\ all_examples = <<>>
    /\ \E f \in SpanFeatures : all_features = <<f>>
    /\ \E r \in SpanResults : all_results = <<r>>
    /\ spans = NoSpans
    /\ example_index = 0
    /\ last = NoLocals
    /\ all_predictions = <<>>
    /\ all_nbest_json = <<>>
    /\ files = <<>>
    /\ metrics = NoMetrics

FilterSpans ==
    /\ pc = "call"
    /\ spans' = filter_impossible_spans(
                  all_features, UniqueIdToResult(all_results),
                  run_config.n_best_size, run_config.max_answer_length,
                  sequence_added_tokens,
                  run_config.sentence_boundary_heuristic,
                  run_config.full_sentence_heuristic,
                  run_config.shared_sentence_heuristic)
    /\ pc' = "returned"
    /\ UNCHANGED <<run_config, sequence_added_tokens, all_examples,
                   all_features, all_results, example_index, last,
                   all_predictions, all_nbest_json, files, metrics>>

NextSpans == FilterSpans

SpecSpans == InitSpans /\ [][NextSpans]_vars

(***************************************************************************)
(* compute_predictions_logits.  The examples of a run are the entries of   *)
(* one document under different ids; each has one chunk, and the scorer    *)
(* gives the same arrays for each.                                         *)
(***************************************************************************)
Init ==
    /\ pc = "loop"
    /\ run_config \in { c \in RunConfigs :
                          c.max_answer_length = MaxAnswerLength }
    /\ sequence_added_tokens = 1
    /\ \E doc \in Documents, ids \in ExampleIdLists, r \in DocResults(1) :
         /\ all_examples = [i \in DOMAIN ids |-> Example(ids[i], doc)]
         /\ all_features =
              [i \in DOMAIN ids |->
                 Feature(i, i - 1, ChunkTokens, doc.token_to_orig_map,
                         AllMaxContext(ChunkTokens), doc.sentence_2_offset,
                         doc.sentence_3_offset)]
         /\ all_results = [i \in DOMAIN ids |-> [r EXCEPT !.unique_id = i]]
    /\ spans = NoSpans
    /\ example_index = 0
    /\ last = NoLocals
    /\ all_predictions = <<>>
    /\ all_nbest_json = <<>>
    /\ files = <<>>
    /\ metrics = NoMetrics

\* lines 639-742: one pass of the loop; an exception ends the run.  When
\* line 643 raises, filter_impossible_spans is not called in this pass and
\* "spans" keeps what it held
ProcessExample ==
    /\ pc = "loop"
    /\ example_index < Len(all_examples)
    /\ spans' = IF SuffixRaises(all_examples[example_index + 1].example_id, run_config.top_n_sentences)
                THEN spans
                ELSE filter_impossible_spans(
                       ExampleIndexToFeatures(all_features, example_index),
                       UniqueIdToResult(all_results),
                       run_config.n_best_size, run_config.max_answer_length,
                       sequence_added_tokens,
                       run_config.sentence_boundary_heuristic,
                       run_config.full_sentence_heuristic,
                       run_config.shared_sentence_heuristic)
    /\ \E ranked \in Rankings(Deduplicated(spans'.prelim_predictions)) :
         last' = LoopBody(all_examples[example_index + 1],
                          ExampleIndexToFeatures(all_features, example_index),
                          spans', ranked, run_config)
    /\ IF last'.raised = <<>>
       THEN /\ all_predictions' =
                 DictSet(all_predictions,
                         all_examples[example_index + 1].example_id,
                         Answer(last'.nbest_json, last'.suffix_index))
            /\ all_nbest_json' =
                 DictSet(all_nbest_json,
                         all_examples[example_index + 1].example_id,
                         last'.nbest_json)
            /\ example_index' = example_index + 1
            /\ pc' = "loop"
       ELSE /\ pc' = "raised"
            /\ UNCHANGED <<all_predictions, all_nbest_json, example_index>>
    /\ UNCHANGED <<run_config, sequence_added_tokens, all_examples,
                   all_features, all_results, files, metrics>>

\* lines 744-750: predictions.json, after the last example
WritePredictions ==
    /\ pc = "loop"
    /\ example_index = Len(all_examples)
    /\ files' = Append(files, <<"predictions.json", all_predictions>>)
    /\ pc' = "csv"
    /\ UNCHANGED <<run_config, sequence_added_tokens, all_examples,
                   all_features, all_results, spans, example_index, last,
                   all_predictions, all_nbest_json, metrics>>

\* lines 752-763: predictions.csv, the header and one row per answer
WriteCsv ==
    /\ pc = "csv"
    /\ files' = Append(files,
         <<"predictions.csv",
           << <<"Index", "Text", "Cause", "Effect">> >>
           \o [i \in DOMAIN all_predictions |->
                 << all_predictions[i][1], all_predictions[i][2].text,
                    all_predictions[i][2].cause_text,
                    all_predictions[i][2].effect_text >>] >>)
    /\ pc' = "nbest"
    /\ UNCHANGED <<run_config, sequence_added_tokens, all_examples,
                   all_features, all_results, spans, example_index, last,
                   all_predictions, all_nbest_json, metrics>>

\* lines 765-769: nbest_predictions.json, then the return
WriteNbest ==
    /\ pc = "nbest"
    /\ files' = Append(files, <<"nbest_predictions.json", all_nbest_json>>)
    /\ pc' = "done"
    /\ UNCHANGED <<run_config, sequence_added_tokens, all_examples,
                   all_features, all_results, spans, example_index, last,
                   all_predictions, all_nbest_json, metrics>>

Next == ProcessExample \/ WritePredictions \/ WriteCsv \/ WriteNbest

Spec == Init /\ [][Next]_vars

(***************************************************************************)
(* Properties of filter_impossible_spans (SpecSpans).                      *)
(***************************************************************************)
Returned == pc = "returned" /\ spans.raised = <<>>

Preds == Range(spans.prelim_predictions)

TheFeature(p) == all_features[p.feature_index + 1]

LastToken(p) == Len(TheFeature(p).tokens) - 1

\* C1: in every prediction filter_impossible_spans returns, under every
\* combination of the three heuristic flags, the start of the effect is not
\* inside the cause span and the start of the cause is not inside the effect
\* span, on the final positions.
C1_SpansDisjoint ==
    Returned =>
      \A p \in Preds :
        /\ ~ (p.start_index_cause <= p.start_index_effect
              /\ p.start_index_effect <= p.end_index_cause)
        /\ ~ (p.start_index_effect <= p.start_index_cause
              /\ p.start_index_cause <= p.end_index_effect)

\* C1 witness: with the three heuristics on, a prediction whose span was
\* extended to the last token of the chunk is returned.
C1_Witness ==
    /\ Returned
    /\ run_config.sentence_boundary_heuristic
    /\ run_config.full_sentence_heuristic
    /\ run_config.shared_sentence_heuristic
    /\ \E p \in Preds :
         p.end_index_effect = LastToken(p) \/ p.end_index_cause = LastToken(p)

\* C2 as stated: in every returned prediction, under every combination of
\* the flags, the cause span and the effect span have at most
\* max_answer_length tokens.
C2_LengthAlways ==
    Returned =>
      \A p \in Preds :
        /\ p.end_index_cause - p.start_index_cause + 1
             <= run_config.max_answer_length
        /\ p.end_index_effect - p.start_index_effect + 1
             <= run_config.max_answer_length

\* C2 amended: with full_sentence_heuristic and shared_sentence_heuristic
\* both off, the cause span and the effect span of every returned prediction
\* have at most max_answer_length tokens.
C2_LengthWithoutExtension ==
    (Returned /\ ~ run_config.full_sentence_heuristic
              /\ ~ run_config.shared_sentence_heuristic) =>
      \A p \in Preds :
        /\ p.end_index_cause - p.start_index_cause + 1
             <= run_config.max_answer_length
        /\ p.end_index_effect - p.start_index_effect + 1
             <= run_config.max_answer_length

\* C2 witness: without the extensions, a prediction with a span of exactly
\* max_answer_length tokens is returned.
C2_Witness ==
    /\ Returned
    /\ ~ run_config.full_sentence_heuristic
    /\ ~ run_config.shared_sentence_heuristic
    /\ \E p \in Preds :
         \/ p.end_index_cause - p.start_index_cause + 1
              = run_config.max_answer_length
         \/ p.end_index_effect - p.start_index_effect + 1
              = run_config.max_answer_length

\* C3: the four positions of every returned prediction are below the token
\* count of its chunk and are keys of the chunk's token_to_orig_map.
C3_PositionsMapped ==
    Returned =>
      \A p \in Preds :
        \A pos \in { p.start_index_cause, p.end_index_cause,
                     p.start_index_effect, p.end_index_effect } :
          /\ pos < Len(TheFeature(p).tokens)
          /\ pos \in DOMAIN TheFeature(p).token_to_orig_map

(***************************************************************************)
(* Properties of compute_predictions_logits (Spec).                        *)
(***************************************************************************)
\* a pass of the loop has run: it recorded an answer or raised
HadPass == example_index > 0 \/ pc = "raised"

\* the example of the last pass
PassExample ==
    all_examples[IF pc = "raised" THEN example_index + 1 ELSE example_index]

\* filter_impossible_spans was called in the last pass and returned
Filtered == HadPass /\ last.line \in { 665, 738, 742 }

\* the last pass got as far as the n-best list and its report: it ended
\* at line 738 or ran to its end
ListBuilt == HadPass /\ last.line \in { 738, 742 }

\* the last pass had no candidate at all
NoCandidate == Filtered /\ spans.prelim_predictions = <<>>

\* the position the selection rule asks for, read off the id
ExpectedIndex(example_id) ==
    IF run_config.top_n_sentences
       /\ \E k \in 1 .. MaxOrdinal : example_id = OrdinalId(k)
    THEN (CHOOSE k \in 1 .. MaxOrdinal : example_id = OrdinalId(k)) - 1
    ELSE 0

JsonSpan(output) ==
    SpanCombination(output.cause_start_index, output.cause_end_index,
                    output.effect_start_index, output.effect_end_index)

\* the reports the run has built: the last one and the recorded ones
Reports ==
    (IF ListBuilt THEN { last.nbest_json } ELSE {})
    \cup { all_nbest_json[i][2] : i \in DOMAIN all_nbest_json }

\* C4: the n-best list of every processed example, for every n_best_size,
\* has at least 1 and at most n_best_size entries.
C4_NBestLength ==
    /\ ListBuilt =>
         /\ 1 <= Len(last.nbest)
         /\ Len(last.nbest) <= run_config.n_best_size
    /\ \A report \in Reports :
         /\ 1 <= Len(report)
         /\ Len(report) <= run_config.n_best_size

\* C4 witness: more than n_best_size predictions were ranked and the list
\* has exactly n_best_size entries, more than one.
C4_Witness ==
    /\ ListBuilt
    /\ run_config.n_best_size > 1
    /\ Len(last.prelim_predictions) > run_config.n_best_size
    /\ Len(last.nbest) = run_config.n_best_size

\* C5: no entry of an n-best list that has texts from the document has a
\* cause text equal to the cause text of an earlier entry together with an
\* effect text equal to the effect text of an earlier entry.
C5_NoRepeatedTexts ==
    ListBuilt =>
      \A i \in DOMAIN last.nbest :
        last.nbest[i].text_cause # <<>> =>
          ~ /\ \E j \in 1 .. (i - 1) :
                 last.nbest[j].text_cause = last.nbest[i].text_cause
            /\ \E k \in 1 .. (i - 1) :
                 last.nbest[k].text_effect = last.nbest[i].text_effect

\* C6: when no candidate survives for an example, its n-best list is the
\* one placeholder entry ("empty", "empty", scores 0, positions 0), with
\* probability 1.0 and is_new true, and that entry is the recorded answer.
C6_PlaceholderSelected ==
    NoCandidate =>
      /\ last.nbest = <<Placeholder>>
      /\ Len(last.nbest_json) = 1
      /\ last.nbest_json[1].cause_text = EmptyText
      /\ last.nbest_json[1].effect_text = EmptyText
      /\ last.nbest_json[1].probability = ProbabilityOne
      /\ last.nbest_json[1].is_new
      /\ pc # "raised"
      /\ PassExample.example_id \in DictKeys(all_predictions)
      /\ DictValue(all_predictions, PassExample.example_id).cause_text
           = EmptyText
      /\ DictValue(all_predictions, PassExample.example_id).effect_text
           = EmptyText

\* C7: the answer recorded for an example is entry 0 of its n-best list,
\* unless its id has exactly two "." and top_n_sentences is set: then, with
\* k the number after the last ".", it is entry k - 1 for k >= 1 and entry
\* 0 for k = 0.  The recorded texts are those of that entry of the report
\* of the same example.
C7_OrdinalSelection ==
    \A i \in DOMAIN all_predictions :
      LET example_id == all_predictions[i][1]
          answer == all_predictions[i][2]
          report == DictValue(all_nbest_json, example_id)
          index == ExpectedIndex(example_id)
      IN  /\ example_id \in DictKeys(all_nbest_json)
          /\ index < Len(report)
          /\ answer.text = report[index + 1].text
          /\ answer.cause_text = report[index + 1].cause_text
          /\ answer.effect_text = report[index + 1].effect_text

\* C7 witness: with top_n_sentences, the answer of the example of ordinal 2
\* is entry 1 of its report, whose texts differ from those of entry 0.
C7_Witness ==
    /\ run_config.top_n_sentences
    /\ OrdinalId(2) \in DictKeys(all_predictions)
    /\ LET report == DictValue(all_nbest_json, OrdinalId(2))
           answer == DictValue(all_predictions, OrdinalId(2))
       IN  /\ Len(report) >= 2
           /\ <<report[1].cause_text, report[1].effect_text>>
                # <<report[2].cause_text, report[2].effect_text>>
           /\ answer.cause_text = report[2].cause_text
           /\ answer.effect_text = report[2].effect_text

\* C8: when the selection rule asks for a position at or past the end of
\* the n-best list, the run raises at that example and records nothing for
\* it, and no output file has been written; files are written only after
\* every example has been processed, each once.
C8_OutOfRangeFails ==
    /\ (ListBuilt
        /\ ExpectedIndex(PassExample.example_id) >= Len(last.nbest_json)) =>
         /\ pc = "raised"
         /\ last.raised = <<"IndexError">>
         /\ PassExample.example_id \notin DictKeys(all_predictions)
         /\ Len(all_predictions) = example_index
         /\ files = <<>>
    /\ pc = "raised" => files = <<>>
    /\ files # <<>> =>
         /\ example_index = Len(all_examples)
         /\ pc \in { "csv", "nbest", "done" }
    /\ \A i, j \in DOMAIN files : files[i][1] = files[j][1] => i = j

\* C8 witness: the second example of a run asks for a position past the end
\* of its list, after the answer of the first was recorded.
C8_Witness ==
    /\ pc = "raised"
    /\ last.raised = <<"IndexError">>
    /\ example_index = 1
    /\ Len(all_predictions) = 1
    /\ ExpectedIndex(PassExample.example_id) >= Len(last.nbest_json)
    /\ files = <<>>

\* C9: an example without any candidate never makes the run fail, whatever
\* its id and the configuration: an answer is recorded for it.
C9_NoCandidateNeverFails ==
    NoCandidate =>
      /\ pc # "raised"
      /\ last.raised = <<>>
      /\ PassExample.example_id \in DictKeys(all_predictions)

\* C10: is_new of entry i of a report is true exactly when no earlier entry
\* j < i is equal to it under SpanCombination equality, entry i on the left
\* and entry j on the right; is_new of the first entry is true.
C10_IsNew ==
    \A report \in Reports :
      /\ report # <<>> => report[1].is_new
      /\ \A i \in DOMAIN report :
           report[i].is_new
             <=> \A j \in 1 .. (i - 1) :
                   ~ SpanEq(JsonSpan(report[i]), JsonSpan(report[j]))

\* C10 witness: an entry equal to an earlier one as the left operand and
\* to none as the right operand; its is_new is false.
C10_Witness ==
    /\ ListBuilt
    /\ \E i \in DOMAIN last.nbest_json :
         /\ ~ last.nbest_json[i].is_new
         /\ \E j \in 1 .. (i - 1) :
              SpanEq(JsonSpan(last.nbest_json[i]), JsonSpan(last.nbest_json[j]))
         /\ \A j \in 1 .. (i - 1) :
              ~ SpanEq(JsonSpan(last.nbest_json[j]),
                       JsonSpan(last.nbest_json[i]))

(***************************************************************************)
(* get_predictions called on a ranked list of its caller's choice: one or  *)
(* two predictions of the chunk of a document, among them predictions      *)
(* whose cause starts at position 0.                                       *)
(***************************************************************************)
DrawnPrediction(start_index_cause, end_index_cause, start_index_effect, end_index_effect, score) ==
    [ feature_index |-> 0,
      start_index_cause |-> start_index_cause,
      end_index_cause |-> end_index_cause,
      start_logit_cause |-> score,
      end_logit_cause |-> score,
      start_index_effect |-> start_index_effect,
      end_index_effect |-> end_index_effect,
      start_logit_effect |-> score,
      end_logit_effect |-> score ]

ContentPositions == 1 .. (Len(ChunkTokens) - 2)

\* the first prediction of a list: its cause starts at [CLS] or at the
\* first content token
FirstPredictions ==
    { DrawnPrediction(sc, ec, se, ee, 2) :
        sc \in 0 .. 1, ec \in 0 .. 2,
        se \in ContentPositions, ee \in ContentPositions }

SecondPredictions ==
    { DrawnPrediction(0, 0, 2, 3, 1), DrawnPrediction(1, 1, 3, 3, 1) }

RankedLists ==
    { <<p>> : p \in FirstPredictions }
    \cup { <<p, q>> : p \in FirstPredictions, q \in SecondPredictions }

InitPredictions ==
    /\ pc = "ranked"
    /\ run_config \in { c \in RunConfigs :
                          /\ c.max_answer_length = MaxAnswerLength
                          /\ ~ c.sentence_boundary_heuristic
                          /\ ~ c.full_sentence_heuristic
                          /\ ~ c.shared_sentence_heuristic
                          /\ ~ c.top_n_sentences }
    /\ sequence_added_tokens = 1
    /\ \E doc \in Documents :
         /\ all_examples = << Example(<<"7">>, doc) >>
         /\ all_features =
              << Feature(1, 0, ChunkTokens, doc.token_to_orig_map,
                         AllMaxContext(ChunkTokens), doc.sentence_2_offset,
                         doc.sentence_3_offset) >>
    /\ all_results = <<>>
    /\ spans = NoSpans
    /\ example_index = 0
    /\ \E ranked \in RankedLists :
         last = Locals(0, <<>>, 0, ranked, <<>>, <<>>)
    /\ all_predictions = <<>>
    /\ all_nbest_json = <<>>
    /\ files = <<>>
    /\ metrics = NoMetrics

\* lines 539-620: the call of get_predictions
GetPredictions ==
    /\ pc = "ranked"
    /\ last' = LET got == get_predictions(last.prelim_predictions,
                                          run_config.n_best_size,
                                          all_features, all_examples[1])
               IN  Locals(0, got.raised, 0, last.prelim_predictions, got.nbest,
                          <<>>)
    /\ pc' = "got"
    /\ UNCHANGED <<run_config, sequence_added_tokens, all_examples,
                   all_features, all_results, spans, example_index,
                   all_predictions, all_nbest_json, files, metrics>>

NextPredictions == GetPredictions

SpecPredictions == InitPredictions /\ [][NextPredictions]_vars

(***************************************************************************)
(* Properties of get_predictions (SpecPredictions).                        *)
(***************************************************************************)
Got == pc = "got" /\ last.raised = <<>>

\* C11: for a ranked prediction whose cause starts at position 0,
\* get_predictions emits an entry with empty cause text and empty effect
\* text whose four bounds are the prediction's own four positions.
C11_SentinelBoundsUnchanged ==
    Got =>
      \A i \in DOMAIN last.nbest :
        last.prelim_predictions[i].start_index_cause = 0 =>
          /\ last.nbest[i].text_cause = <<>>
          /\ last.nbest[i].text_effect = <<>>
          /\ last.nbest[i].start_index_cause
               = last.prelim_predictions[i].start_index_cause
          /\ last.nbest[i].end_index_cause
               = last.prelim_predictions[i].end_index_cause
          /\ last.nbest[i].start_index_effect
               = last.prelim_predictions[i].start_index_effect
          /\ last.nbest[i].end_index_effect
               = last.prelim_predictions[i].end_index_effect

(***************************************************************************)
(* Properties of the ranking of compute_predictions_logits (Spec).         *)
(***************************************************************************)
\* the last pass sorted the predictions of its example
Ranked == Filtered

\* the chunk index and the four positions of a prediction
PositionKey(p) ==
    <<p.feature_index, p.start_index_cause, p.end_index_cause,
      p.start_index_effect, p.end_index_effect>>

\* C12: the ranked list of an example has no two entries with the same
\* chunk index and the same four positions, and every (chunk index, four
\* positions) combination that filter_impossible_spans produced is in it
\* exactly once; two produced predictions with the same chunk index and
\* positions have the same scores.
C12_Deduplicated ==
    Ranked =>
      /\ \A i, j \in DOMAIN last.prelim_predictions :
           PositionKey(last.prelim_predictions[i])
             = PositionKey(last.prelim_predictions[j]) => i = j
      /\ { PositionKey(last.prelim_predictions[i]) :
             i \in DOMAIN last.prelim_predictions }
           = { PositionKey(spans.prelim_predictions[i]) :
                 i \in DOMAIN spans.prelim_predictions }
      /\ \A i, j \in DOMAIN spans.prelim_predictions :
           PositionKey(spans.prelim_predictions[i])
             = PositionKey(spans.prelim_predictions[j])
           => spans.prelim_predictions[i] = spans.prelim_predictions[j]

\* C12 witness: filter_impossible_spans produced a combination more than
\* once, and the ranked list has two or more entries.
C12_Witness ==
    /\ Ranked
    /\ Len(last.prelim_predictions) >= 2
    /\ Len(spans.prelim_predictions) > Len(last.prelim_predictions)
    /\ \E i, j \in DOMAIN last.prelim_predictions :
         /\ i < j
         /\ SpanEq(EntrySpan(last.prelim_predictions[j]),
                   EntrySpan(last.prelim_predictions[i]))

\* C13: the n-best list of an example is in non-increasing order of the
\* sum of the four scores, and its entry 0 has the largest sum among all
\* the predictions of the example.
C13_NonIncreasingSums ==
    ListBuilt =>
      /\ \A i, j \in DOMAIN last.nbest :
           i < j => ScoreSum(last.nbest[i]) >= ScoreSum(last.nbest[j])
      /\ \A i \in DOMAIN spans.prelim_predictions :
           ScoreSum(last.nbest[1]) >= ScoreSum(spans.prelim_predictions[i])
      /\ \A report \in Reports :
           \A i, j \in DOMAIN report :
             i < j =>
               report[i].cause_start_score + report[i].cause_end_score
               + report[i].effect_start_score + report[i].effect_end_score
               >= report[j].cause_start_score + report[j].cause_end_score
                  + report[j].effect_start_score + report[j].effect_end_score

\* C13 witness: a list of two or more entries with different sums, cut
\* from a longer ranked list.
C13_Witness ==
    /\ ListBuilt
    /\ Len(last.nbest) >= 2
    /\ ScoreSum(last.nbest[1]) > ScoreSum(last.nbest[2])
    /\ Len(last.prelim_predictions) > Len(last.nbest)

(***************************************************************************)
(* compute_metrics, lines 175-259, and the two files of evaluate, lines    *)
(* 144-152.  A tuple of y_true and y_pred is <<id, text, cause, effect>>.  *)
(***************************************************************************)
\* lines 182-189
YTrue(example) ==
    << example.example_id, example.context_text, example.cause_text,
       example.effect_text >>

\* lines 190-198: the text of the tuple is the text of the example
YPred(example, prediction) ==
    << example.example_id, example.context_text, prediction.cause_text,
       prediction.effect_text >>

\* the test with the effect texts left out
TextsMatchCauseOnly(y_true_ex, y_pred_ex) == y_true_ex[3] = y_pred_ex[3]

\* line 204 (positions 2 and 3 of Python are elements 3 and 4)
TextsMatch(y_true_ex, y_pred_ex) ==
    y_true_ex[3] = y_pred_ex[3] /\ y_true_ex[4] = y_pred_ex[4]

\* lines 205-223: the entry of all_correct or all_wrong
Outcome(y_true_ex, y_pred_ex) ==
    [ text |-> y_true_ex[2],
      cause_true |-> y_true_ex[3],
      effect_true |-> y_true_ex[4],
      cause_pred |-> y_pred_ex[3],
      effect_pred |-> y_pred_ex[4] ]

\* the labelling of the reference metric: a value that depends on the three
\* texts and on nothing else
encode_causal_tokens(text, cause, effect) == <<"labels", text, cause, effect>>

\* lines 157-172: the texts lose their leading blanks
get_data_from_list(input_data) ==
    [i \in DOMAIN input_data |->
       [ index |-> input_data[i][1],
         text |-> LStrip(input_data[i][2]),
         cause |-> LStrip(input_data[i][3]),
         effect |-> LStrip(input_data[i][4]),
         labels |-> encode_causal_tokens(LStrip(input_data[i][2]),
                                         LStrip(input_data[i][3]),
                                         LStrip(input_data[i][4])) ]]

\* the reference metric: four values that depend on the two lists
official_evaluate(y_true, y_pred) ==
    [ precision |-> <<"precision", y_true, y_pred>>,
      recall |-> <<"recall", y_true, y_pred>>,
      f1 |-> <<"f1", y_true, y_pred>>,
      exact_match |-> <<"exact_match", y_true, y_pred>> ]

\* zip(a, b): as long as the shorter list
Zip(a, b) ==
    [i \in 1 .. (IF Len(a) <= Len(b) THEN Len(a) ELSE Len(b)) |->
       <<a[i], b[i]>>]

MetricsResult(raised, all_correct, all_wrong, results) ==
    [ raised |-> raised, all_correct |-> all_correct,
      all_wrong |-> all_wrong, results |-> results ]

compute_metrics(examples, predictions) ==
    LET y_true == [i \in DOMAIN examples |-> YTrue(examples[i])]
        y_pred == [i \in DOMAIN examples |->
                     YPred(examples[i],
                           DictValue(predictions, examples[i].example_id))]
        pairs == Zip(y_true, y_pred)
        matching == SelectSeq(pairs, LAMBDA pr : TextsMatch(pr[1], pr[2]))
        others == SelectSeq(pairs, LAMBDA pr : ~ TextsMatch(pr[1], pr[2]))
        all_correct == [i \in DOMAIN matching |->
                          Outcome(matching[i][1], matching[i][2])]
        all_wrong == [i \in DOMAIN others |->
                        Outcome(others[i][1], others[i][2])]
        data_true == get_data_from_list(y_true)
        data_pred == get_data_from_list(y_pred)
        scores == official_evaluate(data_true, data_pred)
    IN  IF \E i \in DOMAIN examples :
             examples[i].example_id \notin DictKeys(predictions)
        THEN MetricsResult(<<"KeyError">>, <<>>, <<>>, <<>>)
        ELSE IF Len(data_true) # Len(data_pred)
        THEN MetricsResult(<<"AssertionError">>, all_correct, all_wrong, <<>>)
        ELSE IF \E i \in DOMAIN pairs : data_true[i].text # data_pred[i].text
        THEN MetricsResult(<<"AssertionError">>, all_correct, all_wrong, <<>>)
        ELSE MetricsResult(<<>>, all_correct, all_wrong,
                           << <<"F1score:", scores.f1>>,
                              <<"Precision: ", scores.precision>>,
                              <<"Recall: ", scores.recall>>,
                              <<"exact match: ", scores.exact_match>> >>)

(***************************************************************************)
(* The examples and the predictions of a call of compute_metrics on its    *)
(* own: one or two examples of one text with their reference texts, and    *)
(* answers for none, some or all of the ids "7" and "8".                   *)
(***************************************************************************)
ReferenceExample(example_id, context_text, cause_text, effect_text) ==
    [ example_id |-> example_id, context_text |-> context_text,
      cause_text |-> cause_text, effect_text |-> effect_text ]

ContextTexts == { <<"a", " ", "b">>, <<"\t", "a", " ", "b">> }

AnswerTexts == { <<"a">>, <<"b">> }

ReferenceLists ==
    { << ReferenceExample(<<"7">>, t, <<"a">>, <<"b">>) >> : t \in ContextTexts }
    \cup { << ReferenceExample(<<"7">>, t, <<"a">>, <<"b">>),
              ReferenceExample(second, t, <<"a">>, <<"b">>) >> :
             t \in ContextTexts, second \in { <<"7">>, <<"8">> } }

PredictedAnswers ==
    [ text : ContextTexts, cause_text : AnswerTexts, effect_text : AnswerTexts ]

PredictionDicts ==
    { <<>> }
    \cup { << <<id, a>> >> : id \in { <<"7">>, <<"8">> }, a \in PredictedAnswers }
    \cup { << << <<"7">>, a >>, << <<"8">>, b >> >> :
             a \in PredictedAnswers, b \in PredictedAnswers }

\* the examples of a run of evaluate: the entries of the document
\* "a b a b" under the ids "7" and "8", or twice under "7", each with
\* reference texts
Referenced(example, cause_text, effect_text) ==
    [ example_id |-> example.example_id,
      context_text |-> example.context_text,
      word_to_char_mapping |-> example.word_to_char_mapping,
      cause_text |-> cause_text,
      effect_text |-> effect_text ]

EvaluatedIdLists ==
    { << <<"7">> >>, << <<"7">>, <<"8">> >>, << <<"7">>, <<"7">> >> }

EvaluatedDocuments == { doc \in Documents : doc.sentence_2_offset # <<>> }

\* evaluate (lines 124-154) after predict has read the examples and run the
\* scorer (lines 26-115), or a call of compute_metrics on its own with any
\* examples and predictions
InitMetrics ==
    /\ run_config \in { c \in RunConfigs :
                          /\ c.n_best_size = 1
                          /\ c.max_answer_length = MaxAnswerLength
                          /\ ~ c.sentence_boundary_heuristic
                          /\ ~ c.full_sentence_heuristic
                          /\ ~ c.shared_sentence_heuristic
                          /\ ~ c.top_n_sentences }
    /\ sequence_added_tokens = 1
    /\ spans = NoSpans
    /\ example_index = 0
    /\ last = NoLocals
    /\ all_nbest_json = <<>>
    /\ files = <<>>
    /\ metrics = NoMetrics
    /\ \/ /\ pc = "loop"
          /\ all_predictions = <<>>
          /\ \E doc \in EvaluatedDocuments, ids \in EvaluatedIdLists, r \in DocResults(1) :
               /\ \E causes \in [DOMAIN ids -> AnswerTexts], effects \in [DOMAIN ids -> AnswerTexts] :
                    all_examples =
                      [i \in DOMAIN ids |->
                         Referenced(Example(ids[i], doc), causes[i], effects[i])]
               /\ all_features =
                    [i \in DOMAIN ids |->
                       Feature(i, i - 1, ChunkTokens, doc.token_to_orig_map,
                               AllMaxContext(ChunkTokens),
                               doc.sentence_2_offset, doc.sentence_3_offset)]
               /\ all_results = [i \in DOMAIN ids |-> [r EXCEPT !.unique_id = i]]
       \/ /\ pc = "compute_metrics"
          /\ all_examples \in ReferenceLists
          /\ all_predictions \in PredictionDicts
          /\ all_features = <<>>
          /\ all_results = <<>>

\* lines 175-259: compute_metrics, called by evaluate at line 144 when
\* predict has returned, or on its own; an exception ends the run
ComputeMetrics ==
    /\ pc \in { "done", "compute_metrics" }
    /\ metrics' = compute_metrics(all_examples, all_predictions)
    /\ pc' = IF metrics'.raised # <<>> THEN "raised"
             ELSE IF pc = "done" THEN "correct" ELSE "returned"
    /\ UNCHANGED <<run_config, sequence_added_tokens, all_examples,
                   all_features, all_results, spans, example_index, last,
                   all_predictions, all_nbest_json, files>>

\* lines 145-149: predictions_correct.json
WriteCorrect ==
    /\ pc = "correct"
    /\ files' = Append(files, <<"predictions_correct.json",
                                metrics.all_correct>>)
    /\ pc' = "wrong"
    /\ UNCHANGED <<run_config, sequence_added_tokens, all_examples,
                   all_features, all_results, spans, example_index, last,
                   all_predictions, all_nbest_json, metrics>>

\* lines 151-154: predictions_wrong.json, then the return
WriteWrong ==
    /\ pc = "wrong"
    /\ files' = Append(files, <<"predictions_wrong.json", metrics.all_wrong>>)
    /\ pc' = "evaluated"
    /\ UNCHANGED <<run_config, sequence_added_tokens, all_examples,
                   all_features, all_results, spans, example_index, last,
                   all_predictions, all_nbest_json, metrics>>

\* evaluate: predict (line 133), whose last step is
\* compute_predictions_logits (line 117) with its three files, then
\* compute_metrics and the two files of evaluate
NextMetrics ==
    \/ ProcessExample \/ WritePredictions \/ WriteCsv \/ WriteNbest
    \/ ComputeMetrics \/ WriteCorrect \/ WriteWrong

SpecMetrics == InitMetrics /\ [][NextMetrics]_vars

(***************************************************************************)
(* Properties of compute_metrics (SpecMetrics).                            *)
(***************************************************************************)
\* compute_metrics has returned
MetricsReturned == pc \in { "correct", "wrong", "evaluated", "returned" }

\* compute_metrics has been called
MetricsCalled == MetricsReturned \/ metrics.raised # <<>>

\* the answer of example i
PredictionOf(i) == DictValue(all_predictions, all_examples[i].example_id)

\* example i is answered with its reference cause and effect texts
Matches(i) ==
    /\ PredictionOf(i).cause_text = all_examples[i].cause_text
    /\ PredictionOf(i).effect_text = all_examples[i].effect_text

\* the k-th smallest element of a set of numbers
Nth(S, k) == CHOOSE i \in S : Cardinality({ j \in S : j <= i }) = k

\* "list" holds, in example order, the entries of the examples of S
ListsExamples(list, S) ==
    /\ Len(list) = Cardinality(S)
    /\ \A k \in DOMAIN list :
         /\ list[k].text = all_examples[Nth(S, k)].context_text
         /\ list[k].cause_true = all_examples[Nth(S, k)].cause_text
         /\ list[k].effect_true = all_examples[Nth(S, k)].effect_text
         /\ list[k].cause_pred = PredictionOf(Nth(S, k)).cause_text
         /\ list[k].effect_pred = PredictionOf(Nth(S, k)).effect_text

\* C14: compute_metrics puts every example in exactly one of all_correct
\* and all_wrong, in example order: in all_correct exactly when the
\* predicted cause and effect texts equal the reference texts; the lengths
\* of the two lists sum to the number of examples.
C14_Partition ==
    MetricsReturned =>
      /\ ListsExamples(metrics.all_correct,
                       { i \in DOMAIN all_examples : Matches(i) })
      /\ ListsExamples(metrics.all_wrong,
                       { i \in DOMAIN all_examples : ~ Matches(i) })
      /\ Len(metrics.all_correct) + Len(metrics.all_wrong)
           = Len(all_examples)

\* C14 witness: evaluate has returned; of its two examples the first is
\* wrong and the second is correct, and the two files of evaluate follow
\* the three files of compute_predictions_logits.
C14_Witness ==
    /\ pc = "evaluated"
    /\ Len(all_examples) = 2
    /\ ~ Matches(1)
    /\ Matches(2)
    /\ Len(metrics.all_correct) = 1
    /\ Len(metrics.all_wrong) = 1
    /\ [i \in DOMAIN files |-> files[i][1]]
         = << "predictions.json", "predictions.csv",
              "nbest_predictions.json", "predictions_correct.json",
              "predictions_wrong.json" >>

\* the condition of C15, on the arguments of compute_metrics (the function
\* itself reads neither the number of predictions nor their "text"): the
\* number of predictions differs from the number of examples, or the text
\* of the prediction of an example is not the text of the example
Mismatch ==
    \/ Len(all_predictions) # Len(all_examples)
    \/ \E i \in DOMAIN all_examples :
         /\ all_examples[i].example_id \in DictKeys(all_predictions)
         /\ PredictionOf(i).text # all_examples[i].context_text

\* C15: when the number of predictions differs from the number of
\* examples, or the text of a prediction differs from the text of its
\* example, compute_metrics aborts and returns no metrics.
C15_MismatchAborts ==
    (MetricsCalled /\ Mismatch) =>
      /\ pc = "raised"
      /\ metrics.raised # <<>>
      /\ metrics.results = <<>>

(***************************************************************************)
(* More properties of filter_impossible_spans (SpecSpans).                 *)
(***************************************************************************)
\* the scores of the chunk of a prediction
TheResult(p) == UniqueIdToResult(all_results)[TheFeature(p).unique_id]

\* the rules that move the ends of a span are off
NoExtension ==
    /\ ~ run_config.full_sentence_heuristic
    /\ ~ run_config.shared_sentence_heuristic

\* C16: with the extension heuristics off, the four positions of every
\* returned prediction are flagged max-context in its chunk.
C16_AllMaxContext ==
    (Returned /\ NoExtension) =>
      \A p \in Preds :
        \A pos \in { p.start_index_cause, p.end_index_cause,
                     p.start_index_effect, p.end_index_effect } :
          /\ pos \in DOMAIN TheFeature(p).token_is_max_context
          /\ TheFeature(p).token_is_max_context[pos]

\* C17: the four scores of every returned prediction are the values of the
\* chunk's cause-start, cause-end, effect-start and effect-end arrays at
\* the prediction's own final positions.
C17_ScoresAtFinalPositions ==
    Returned =>
      \A p \in Preds :
        /\ p.start_logit_cause
             = TheResult(p).start_cause_logits[p.start_index_cause + 1]
        /\ p.end_logit_cause
             = TheResult(p).end_cause_logits[p.end_index_cause + 1]
        /\ p.start_logit_effect
             = TheResult(p).start_effect_logits[p.start_index_effect + 1]
        /\ p.end_logit_effect
             = TheResult(p).end_effect_logits[p.end_index_effect + 1]

\* C17 witness: a returned prediction with an end position that is none of
\* the top n_best_size positions of its array, and whose end score is not
\* the score at the top position.
C17_Witness ==
    /\ Returned
    /\ \E p \in Preds :
         /\ p.end_index_effect
              \notin Range(_get_best_indexes(TheResult(p).end_effect_logits,
                                             run_config.n_best_size))
         /\ p.end_logit_effect
              # TheResult(p).end_effect_logits[
                  _get_best_indexes(TheResult(p).end_effect_logits, 1)[1] + 1]
         /\ p.start_index_effect # p.end_index_effect

\* C18: with sentence_boundary_heuristic on (and the extension rules off,
\* so that the returned spans are pairs that reached the filter), on
\* chunks with one or two sentence offsets, no cause span and no effect
\* span has a sentence offset strictly between its start and its end.
C18_NoBoundaryInside ==
    (Returned /\ run_config.sentence_boundary_heuristic /\ NoExtension) =>
      \A p \in Preds :
        \A offset \in Range(SentenceOffsets(TheFeature(p))) :
          /\ ~ (p.start_index_cause < offset /\ offset < p.end_index_cause)
          /\ ~ (p.start_index_effect < offset /\ offset < p.end_index_effect)

(***************************************************************************)
(* The loops of filter_impossible_spans over the chunk, lines 326-535.     *)
(* The loop variables start_index_cause and end_index_cause are bound once *)
(* per cause pair (line 341) and assigned by the extension rules, so they  *)
(* keep an extended span for the effect pairs that follow.  A loop state   *)
(* is the cause pair as bound, the cause span the variables hold, and      *)
(* whether the first rule has changed it; a visit is one pass of the       *)
(* innermost loop (line 363): the loop state at line 364 and the effect    *)
(* pair.                                                                   *)
(***************************************************************************)
TheChunk == all_features[1]

TheScores == UniqueIdToResult(all_results)[TheChunk.unique_id]

\* the cause pairs and the effect pairs in loop order, repeats included
CausePairList == SpanPairs(TheScores.start_cause_logits, TheScores.end_cause_logits, TheChunk, run_config.n_best_size, run_config.sentence_boundary_heuristic)

EffectPairList == SpanPairs(TheScores.start_effect_logits, TheScores.end_effect_logits, TheChunk, run_config.n_best_size, run_config.sentence_boundary_heuristic)

CausePairs == Range(CausePairList)

EffectPairs == Range(EffectPairList)

Extended(cause, effect) == ExtendSpans(TheChunk, cause, effect, sequence_added_tokens, run_config.full_sentence_heuristic, run_config.shared_sentence_heuristic)

ChunkOffsets == AllSentenceOffsets(TheChunk, sequence_added_tokens)

FullOf(cause, effect) == FullSentenceRule(cause, effect, SentencesOf(cause[1], ChunkOffsets), SentencesOf(effect[1], ChunkOffsets), ChunkOffsets, run_config.full_sentence_heuristic)

LoopState(raw, cause, by_full) == [raw |-> raw, cause |-> cause, by_full |-> by_full]

LoopVisit(state, effect) == [state |-> state, effect |-> effect]

\* lines 364-412: the combination of the visit is kept
Passes(state, effect) ==
    PassesFilter(TheChunk, state.cause[1], state.cause[2], effect[1],
                 effect[2], run_config.max_answer_length)

\* the visit reaches line 414 and the extension rules raise no exception
Extends(state, effect) ==
    /\ Passes(state, effect)
    /\ ~ IsRaise(Extended(state.cause, effect))

\* the visit raises: in the extension rules, or at lines 518-532
VisitRaises(state, effect) ==
    /\ Passes(state, effect)
    /\ \/ IsRaise(Extended(state.cause, effect))
       \/ IsRaise(PrelimPrediction(0, TheScores,
                                   Extended(state.cause, effect).cause,
                                   Extended(state.cause, effect).effect))

\* the loop state after the visit
After(state, effect) ==
    IF Extends(state, effect)
    THEN LoopState(state.raw, Extended(state.cause, effect).cause,
                   \/ state.by_full
                   \/ FullOf(state.cause, effect).cause # state.cause)
    ELSE state

\* lines 342-535 for one cause pair: the visits in loop order and the loop
\* states they leave; an exception ends the loops
RECURSIVE EffectVisits(_, _, _)
EffectVisits(state, effect_pairs, trace) ==
    IF effect_pairs = <<>> THEN trace
    ELSE
      LET effect == Head(effect_pairs)
          here == [ visits |-> Append(trace.visits, LoopVisit(state, effect)),
                    states |-> trace.states \cup {After(state, effect)},
                    raised |-> VisitRaises(state, effect) ]
      IN  IF here.raised THEN here
          ELSE EffectVisits(After(state, effect), Tail(effect_pairs), here)

\* lines 326-535: the cause pairs in loop order
RECURSIVE CauseVisits(_, _)
CauseVisits(cause_pairs, trace) ==
    IF cause_pairs = <<>> \/ trace.raised THEN trace
    ELSE
      LET bound == LoopState(Head(cause_pairs), Head(cause_pairs), FALSE)
      IN  CauseVisits(
            Tail(cause_pairs),
            EffectVisits(bound, EffectPairList,
                         [trace EXCEPT !.states = @ \cup {bound}]))

LoopTrace ==
    CauseVisits(CausePairList,
                [visits |-> <<>>, states |-> {}, raised |-> FALSE])

\* the passes of the innermost loop
LoopVisits == Range(LoopTrace.visits)

\* the cause spans the loop variables hold in the course of the call
LoopStates == LoopTrace.states

\* the combinations that reach line 414: the cause span the loop holds and
\* the effect pair of a visit that passes the filter
Candidates ==
    { <<visit.state.cause, visit.effect>> :
        visit \in { v \in LoopVisits : Passes(v.state, v.effect) } }

\* the sentences (0-based) of the chunk
ChunkSentences == 0 .. (Len(ChunkOffsets) - 2)

\* first and last position of a sentence
Extent(sentence_idx) ==
    << ChunkOffsets[sentence_idx + 1], ChunkOffsets[sentence_idx + 2] - 1 >>

\* the sentences that hold at least one position of a span
Touched(span) ==
    { sentence_idx \in ChunkSentences :
        /\ Extent(sentence_idx)[1] <= span[2]
        /\ span[1] <= Extent(sentence_idx)[2] }

\* the positions first .. last of the sentences in a set
UnionExtent(sentences) ==
    << SetMin({ Extent(k)[1] : k \in sentences }),
       SetMax({ Extent(k)[2] : k \in sentences }) >>

Contains(outer, inner) == outer[1] <= inner[1] /\ inner[2] <= outer[2]

\* cause and effect each touch exactly one sentence, the same one
SharedApplies(cause, effect) ==
    /\ run_config.shared_sentence_heuristic
    /\ Cardinality(Touched(cause)) = 1
    /\ Touched(cause) = Touched(effect)

\* the sentences touched by the cause and by the effect are disjoint
FullApplies(cause, effect) ==
    /\ run_config.full_sentence_heuristic
    /\ Touched(cause) # {}
    /\ Touched(effect) # {}
    /\ Touched(cause) \cap Touched(effect) = {}

\* the span of a candidate that starts first, and the other one
Earlier(cause, effect) == IF cause[1] < effect[1] THEN cause ELSE effect

Later(cause, effect) == IF cause[1] < effect[1] THEN effect ELSE cause

\* the returned prediction has exactly these two spans
HasSpans(p, x) ==
    /\ <<p.start_index_cause, p.end_index_cause>> = x.cause
    /\ <<p.start_index_effect, p.end_index_effect>> = x.effect

\* C19 (as stated): when the shared-sentence rule applies to a candidate,
\* the later-starting span is unchanged and the earlier-starting span runs
\* through the end of the sentence and engulfs the other span.
C19_EarlierEngulfsLater ==
    Returned =>
      \A pair \in Candidates :
        SharedApplies(pair[1], pair[2]) =>
          LET x == Extended(pair[1], pair[2])
              sentence == UnionExtent(Touched(pair[1]))
          IN  /\ ~ IsRaise(x)
              /\ Later(x.cause, x.effect) = Later(pair[1], pair[2])
              /\ Earlier(x.cause, x.effect)[2] = sentence[2]
              /\ Contains(Earlier(x.cause, x.effect), Later(pair[1], pair[2]))

\* C19 (amended): when the shared-sentence rule applies to a candidate, the
\* earlier-starting span keeps its end and starts at the first position of
\* the sentence, the later-starting span keeps its start and ends at the
\* last position of the sentence, and the two spans stay disjoint; every
\* returned prediction whose two spans lie in one sentence has this shape.
C19_SharedSentenceExtension ==
    (Returned /\ run_config.shared_sentence_heuristic) =>
      /\ \A pair \in Candidates :
           SharedApplies(pair[1], pair[2]) =>
             LET x == Extended(pair[1], pair[2])
                 sentence == UnionExtent(Touched(pair[1]))
             IN  /\ ~ IsRaise(x)
                 /\ Earlier(x.cause, x.effect)
                      = << sentence[1], Earlier(pair[1], pair[2])[2] >>
                 /\ Later(x.cause, x.effect)
                      = << Later(pair[1], pair[2])[1], sentence[2] >>
                 /\ Earlier(x.cause, x.effect)[2] < Later(x.cause, x.effect)[1]
      /\ \A p \in Preds :
           LET cause == <<p.start_index_cause, p.end_index_cause>>
               effect == <<p.start_index_effect, p.end_index_effect>>
           IN  (Cardinality(Touched(cause)) = 1 /\ Touched(cause) = Touched(effect)) =>
                 /\ Earlier(cause, effect)[1] = UnionExtent(Touched(cause))[1]
                 /\ Later(cause, effect)[2] = UnionExtent(Touched(cause))[2]
                 /\ Earlier(cause, effect)[2] < Later(cause, effect)[1]

\* C19 witness: the rule applied to a candidate, moved the start of the
\* earlier span and the end of the later span, and the result was returned.
C19_Witness ==
    /\ Returned
    /\ \E pair \in Candidates :
         /\ SharedApplies(pair[1], pair[2])
         /\ ~ IsRaise(Extended(pair[1], pair[2]))
         /\ Earlier(Extended(pair[1], pair[2]).cause, Extended(pair[1], pair[2]).effect) # Earlier(pair[1], pair[2])
         /\ Later(Extended(pair[1], pair[2]).cause, Extended(pair[1], pair[2]).effect) # Later(pair[1], pair[2])
         /\ \E p \in Preds : HasSpans(p, Extended(pair[1], pair[2]))

\* C20: when the sentences touched by the cause and those touched by the
\* effect are disjoint and full_sentence_heuristic is on, each span becomes
\* the union of the extents of the sentences it touches, and so contains
\* the span it was.
C20_UnionOfTouchedSentences ==
    Returned =>
      \A pair \in Candidates :
        FullApplies(pair[1], pair[2]) =>
          LET x == Extended(pair[1], pair[2])
          IN  /\ ~ IsRaise(x)
              /\ x.cause = UnionExtent(Touched(pair[1]))
              /\ x.effect = UnionExtent(Touched(pair[2]))
              /\ Contains(x.cause, pair[1])
              /\ Contains(x.effect, pair[2])

(***************************************************************************)
(* The extension rules and the other flags (SpecSpans).                    *)
(***************************************************************************)
\* what the call returns on the same chunk and scores with both extension
\* flags off
WithoutExtension == filter_impossible_spans(all_features, UniqueIdToResult(all_results), run_config.n_best_size, run_config.max_answer_length, sequence_added_tokens, run_config.sentence_boundary_heuristic, FALSE, FALSE)

\* C21: when sentence_boundary_heuristic is off or the chunk has no
\* sentence offset, the returned predictions are those of the same call
\* with full_sentence_heuristic and shared_sentence_heuristic off.
C21_ExtensionNeedsBoundary ==
    (/\ Returned
     /\ \/ ~ run_config.sentence_boundary_heuristic
        \/ SentenceOffsets(TheChunk) = <<>>) =>
      spans = WithoutExtension

(***************************************************************************)
(* The two extension rules together (SpecSpans).                           *)
(***************************************************************************)
\* C22: with both extension flags on, the shared-sentence rule never moves
\* a position of a candidate that the full-sentence rule has changed, in
\* the same pass or in an earlier pass of the loop over the effect pairs:
\* the positions after both rules are those after the full-sentence rule.
C22_AtMostOnePolicy ==
    (/\ Returned
     /\ run_config.full_sentence_heuristic
     /\ run_config.shared_sentence_heuristic) =>
      \A visit \in LoopVisits :
        (/\ Extends(visit.state, visit.effect)
         /\ \/ visit.state.by_full
            \/ FullOf(visit.state.cause, visit.effect)
                 # SpanPair(visit.state.cause, visit.effect)) =>
          Extended(visit.state.cause, visit.effect)
            = FullOf(visit.state.cause, visit.effect)

\* C22 witness: with both flags on, one candidate was changed by the
\* full-sentence rule and returned, and another one by the shared-sentence
\* rule.
C22_Witness ==
    /\ Returned
    /\ run_config.full_sentence_heuristic
    /\ run_config.shared_sentence_heuristic
    /\ \E visit \in LoopVisits :
         /\ Extends(visit.state, visit.effect)
         /\ FullOf(visit.state.cause, visit.effect)
              # SpanPair(visit.state.cause, visit.effect)
         /\ \E p \in Preds :
              HasSpans(p, Extended(visit.state.cause, visit.effect))
    /\ \E visit \in LoopVisits :
         /\ Extends(visit.state, visit.effect)
         /\ FullOf(visit.state.cause, visit.effect)
              = SpanPair(visit.state.cause, visit.effect)
         /\ Extended(visit.state.cause, visit.effect)
              # SpanPair(visit.state.cause, visit.effect)
         /\ \E p \in Preds :
              HasSpans(p, Extended(visit.state.cause, visit.effect))

(***************************************************************************)
(* The number of combinations the loops of a chunk visit.                  *)
(***************************************************************************)
\* passes of the innermost loop body (line 364)
Examined == Len(LoopTrace.visits)

\* predictions appended for the chunk, before set()
Emitted == Len(spans.prelim_predictions)

NBest4 == run_config.n_best_size * run_config.n_best_size * run_config.n_best_size * run_config.n_best_size

\* the split is on and the chunk has a sentence offset
Splitting ==
    /\ run_config.sentence_boundary_heuristic
    /\ Len(SentenceOffsets(TheChunk)) > 0

\* C23 (as stated): the combinations examined for the chunk, and the
\* predictions emitted for it, are at most n_best_size^4, with or without
\* sentence splitting.
C23_AtMostNBest4 ==
    Returned => (Examined <= NBest4 /\ Emitted <= NBest4)

\* C23 (amended): the predictions emitted are at most the combinations
\* examined; these are at most n_best_size^4 without sentence splitting
\* and at most 4 * n_best_size^4 with it, each raw pair giving at most two
\* sub-pairs.
C23_AtMostFourNBest4 ==
    Returned =>
      /\ Emitted <= Examined
      /\ Examined <= 4 * NBest4
      /\ ~ Splitting => Examined <= NBest4

\* C23 witness: with splitting, more than n_best_size^4 predictions are
\* emitted for the chunk.
C23_Witness ==
    /\ Returned
    /\ Splitting
    /\ Emitted > NBest4

(***************************************************************************)
(* _get_best_indexes called on its own: score arrays of up to MaxLogits    *)
(* scores, with repeated and negative scores, and n_best_size from below   *)
(* 0 to beyond the length of the array.                                    *)
(***************************************************************************)
LogitValues == -1 .. 1

LogitArrays == UNION { [1 .. k -> LogitValues] : k \in 0 .. MaxLogits }

BestSizes == -2 .. (MaxNBest + 1)

BestLocals(logits, n_best_size, best_indexes) == [logits |-> logits, n_best_size |-> n_best_size, best_indexes |-> best_indexes]

InitBest ==
    /\ pc = "best"
    /\ run_config \in { c \in RunConfigs : ~ c.top_n_sentences /\ c.n_best_size = 1 /\ c.max_answer_length = MaxAnswerLength /\ ~ c.full_sentence_heuristic /\ ~ c.shared_sentence_heuristic }
    /\ sequence_added_tokens = 1
    /\ all_examples = <<>>
    /\ all_features = <<>>
    /\ all_results = <<>>
    /\ spans = NoSpans
    /\ example_index = 0
    /\ \E logits \in LogitArrays : \E n_best_size \in BestSizes : last = BestLocals(logits, n_best_size, <<>>)
    /\ all_predictions = <<>>
    /\ all_nbest_json = <<>>
    /\ files = <<>>
    /\ metrics = NoMetrics

\* best_indexes = _get_best_indexes(logits, n_best_size); with these scores
\* in all four arrays of a chunk, the chunk's predictions
GetBestIndexes ==
    /\ pc = "best"
    /\ last' = BestLocals(last.logits, last.n_best_size, _get_best_indexes(last.logits, last.n_best_size))
    /\ \E f \in { g \in SpanFeatures : Len(g.tokens) = Len(ChunkTokens) } :
         /\ all_features' = <<f>>
         /\ all_results' = <<Result(f.unique_id, last.logits, last.logits, last.logits, last.logits)>>
         /\ spans' = filter_impossible_spans(<<f>>, UniqueIdToResult(all_results'), last.n_best_size, run_config.max_answer_length, sequence_added_tokens, run_config.sentence_boundary_heuristic, run_config.full_sentence_heuristic, run_config.shared_sentence_heuristic)
    /\ pc' = "chosen"
    /\ UNCHANGED <<run_config, sequence_added_tokens, all_examples, example_index, all_predictions, all_nbest_json, files, metrics>>

NextBest == GetBestIndexes

SpecBest == InitBest /\ [][NextBest]_vars

Chosen == pc = "chosen"

ScoreAt(position) == last.logits[position + 1]

\* C24: for n >= 0, _get_best_indexes(logits, n) returns min(n, len(logits))
\* pairwise distinct positions of the array, in non-increasing score order
\* with equal scores in ascending position order; no position left out
\* has a higher score than a returned one; an empty array gives no
\* position, and a chunk with empty arrays no candidate.
C24_BestIndexes ==
    (Chosen /\ last.n_best_size >= 0) =>
      LET best_indexes == last.best_indexes
      IN  /\ Len(best_indexes)
               = (IF last.n_best_size < Len(last.logits)
                  THEN last.n_best_size ELSE Len(last.logits))
          /\ \A i \in DOMAIN best_indexes :
               best_indexes[i] \in 0 .. (Len(last.logits) - 1)
          /\ \A i \in DOMAIN best_indexes : \A j \in DOMAIN best_indexes :
               i < j =>
                 /\ best_indexes[i] # best_indexes[j]
                 /\ ScoreAt(best_indexes[i]) >= ScoreAt(best_indexes[j])
                 /\ ScoreAt(best_indexes[i]) = ScoreAt(best_indexes[j])
                      => best_indexes[i] < best_indexes[j]
          /\ \A position \in (0 .. (Len(last.logits) - 1)) \ Range(best_indexes) :
               \A i \in DOMAIN best_indexes :
                 ScoreAt(position) <= ScoreAt(best_indexes[i])
          /\ last.logits = <<>> =>
               /\ best_indexes = <<>>
               /\ spans.raised = <<>>
               /\ spans.prelim_predictions = <<>>

\* C24 witness: fewer positions, but not fewer than 0, asked for than the
\* array holds, two returned positions with equal scores, and a position left out.
C24_Witness ==
    /\ Chosen
    /\ last.n_best_size >= 0
    /\ last.n_best_size < Len(last.logits)
    /\ \E i \in DOMAIN last.best_indexes : \E j \in DOMAIN last.best_indexes :
         /\ i < j
         /\ ScoreAt(last.best_indexes[i]) = ScoreAt(last.best_indexes[j])
    /\ \E i \in DOMAIN last.best_indexes : \E j \in DOMAIN last.best_indexes :
         ScoreAt(last.best_indexes[i]) > ScoreAt(last.best_indexes[j])

(***************************************************************************)
(* Interval properties of the returned spans (SpecSpans).                  *)
(***************************************************************************)
\* the offsets of the chunk increase
IncreasingOffsets ==
    \A i \in DOMAIN SentenceOffsets(TheChunk) : \A j \in DOMAIN SentenceOffsets(TheChunk) :
      i < j => SentenceOffsets(TheChunk)[i] < SentenceOffsets(TheChunk)[j]

\* C25: in every returned prediction, under every combination of the
\* flags, on chunks with increasing sentence offsets, each span has its
\* start at or before its end and no token position lies in both spans.
C25_IntervalsDisjoint ==
    (Returned /\ IncreasingOffsets) =>
      \A p \in Preds :
        /\ p.start_index_cause <= p.end_index_cause
        /\ p.start_index_effect <= p.end_index_effect
        /\ (p.start_index_cause .. p.end_index_cause)
             \cap (p.start_index_effect .. p.end_index_effect) = {}

\* C25 witness: a candidate whose cause runs over a sentence boundary was
\* changed by an extension rule and returned, its two spans next to each
\* other.
C25_Witness ==
    /\ Returned
    /\ IncreasingOffsets
    /\ \E pair \in Candidates :
         /\ Cardinality(Touched(pair[1])) > 1
         /\ ~ IsRaise(Extended(pair[1], pair[2]))
         /\ Extended(pair[1], pair[2]) # SpanPair(pair[1], pair[2])
         /\ \E p \in Preds :
              /\ HasSpans(p, Extended(pair[1], pair[2]))
              /\ p.end_index_cause + 1 = p.start_index_effect

(***************************************************************************)
(* Failures of the extension rules (SpecSpans).                            *)
(***************************************************************************)
\* the call has ended, by return or by an exception
Ended == pc = "returned"

AnyExtension ==
    \/ run_config.full_sentence_heuristic
    \/ run_config.shared_sentence_heuristic

\* C26: with full_sentence_heuristic or shared_sentence_heuristic on, the
\* call raises no exception, and every combination that passes the filter,
\* with the cause span the loop holds at that time, has the start of its
\* cause and the start of its effect in exactly one sentence each.
C26_ExtensionNeverFails ==
    (Ended /\ AnyExtension) =>
      /\ spans.raised = <<>>
      /\ \A pair \in Candidates :
           /\ Len(SentencesOf(pair[1][1], ChunkOffsets)) = 1
           /\ Len(SentencesOf(pair[2][1], ChunkOffsets)) = 1

\* C26 witness: on a chunk of three sentences, a candidate whose cause
\* starts in the last sentence, the one closed by the token count, was
\* changed by an extension rule and returned.
C26_Witness ==
    /\ Ended
    /\ AnyExtension
    /\ Len(SentenceOffsets(TheChunk)) = 2
    /\ \E pair \in Candidates :
         /\ SentencesOf(pair[1][1], ChunkOffsets) = <<Len(ChunkOffsets) - 2>>
         /\ ~ IsRaise(Extended(pair[1], pair[2]))
         /\ Extended(pair[1], pair[2]).cause # pair[1]
         /\ \E p \in Preds : HasSpans(p, Extended(pair[1], pair[2]))

(***************************************************************************)
(* SpanCombination.__eq__ called on its own: two combinations whose spans  *)
(* have start <= end, over the positions 0 .. MaxPosition.                 *)
(***************************************************************************)
WellFormedSpans == { span \in (0 .. MaxPosition) \X (0 .. MaxPosition) : span[1] <= span[2] }

WellFormedCombinations == { SpanCombination(cause[1], cause[2], effect[1], effect[2]) : cause \in WellFormedSpans, effect \in WellFormedSpans }

EqLocals(self, other, results) == [self |-> self, other |-> other, results |-> results]

InitEq ==
    /\ pc = "compare"
    /\ run_config \in { c \in RunConfigs : ~ c.top_n_sentences /\ c.n_best_size = 1 /\ c.max_answer_length = MaxAnswerLength /\ ~ c.sentence_boundary_heuristic /\ ~ c.full_sentence_heuristic /\ ~ c.shared_sentence_heuristic }
    /\ sequence_added_tokens = 1
    /\ all_examples = <<>>
    /\ all_features = <<>>
    /\ all_results = <<>>
    /\ spans = NoSpans
    /\ example_index = 0
    /\ \E self \in WellFormedCombinations : \E other \in WellFormedCombinations : last = EqLocals(self, other, <<>>)
    /\ all_predictions = <<>>
    /\ all_nbest_json = <<>>
    /\ files = <<>>
    /\ metrics = NoMetrics

\* self == other, other == self and self == self
Compare ==
    /\ pc = "compare"
    /\ last' = EqLocals(last.self, last.other, <<SpanEq(last.self, last.other), SpanEq(last.other, last.self), SpanEq(last.self, last.self)>>)
    /\ pc' = "compared"
    /\ UNCHANGED <<run_config, sequence_added_tokens, all_examples, all_features, all_results, spans, example_index, all_predictions, all_nbest_json, files, metrics>>

NextEq == Compare

SpecEq == InitEq /\ [][NextEq]_vars

Compared == pc = "compared"

\* C27: on combinations whose cause and effect have start <= end, a == a
\* holds, and a == b holds exactly when b == a holds.
C27_EqSymmetric ==
    Compared =>
      /\ last.results[3]
      /\ last.results[1] <=> last.results[2]

====
